---- MODULE Spec2Model ----
(***************************************************************************)
(* State-machine model of the job-portal backend (backend/app): the        *)
(* persisted entities (users, jobs, applications, chat messages, stored    *)
(* resume files), the authentication dependencies, the HTTP handlers of    *)
(* the auth, jobs and chat routers, and the resume screening decision.     *)
(*                                                                         *)
(* Conventions                                                             *)
(*  - an optional (nullable) value is a set with at most one element:      *)
(*    None is {} and Some(v) is {v};                                       *)
(*  - a Python dict is a function over string keys; a missing key is a     *)
(*    key outside its DOMAIN (dict.get(k, default) is Get);                *)
(*  - scores and weights are integers in hundredths of a point, ratios and *)
(*    similarities integers in 1/10000;                                    *)
(*  - resp is the HTTP response of the request just completed, together   *)
(*    with the operation, the bearer token and the job id of that request, *)
(*    until send_response hands it to the client; requests are handled one *)
(*    after the other.                                                     *)
(***************************************************************************)
EXTENDS Integers, Sequences, FiniteSets, TLC

VARIABLES users, jobs, nextJobId, applications, nextAppId, files, messages,
          req, resp, ev

vars == <<users, jobs, nextJobId, applications, nextAppId, files, messages,
          req, resp, ev>>

db == <<users, jobs, nextJobId, applications, nextAppId, files, messages>>

----------------------------------------------------------------------------
(* Bounds of the exploration *)

MaxUsers == 3
MaxJobs == 1
MaxApps == 2
MaxMsgs == 1

----------------------------------------------------------------------------
(* Optional values and dicts *)

None == {}
Some(v) == {v}
Val(o) == CHOOSE v \in o : TRUE

EmptyDict == <<>>
Get(d, k, default) == IF k \in DOMAIN d THEN d[k] ELSE default

Min(a, b) == IF a <= b THEN a ELSE b
Max(a, b) == IF a >= b THEN a ELSE b

----------------------------------------------------------------------------
(* HTTP *)

HTTP_200_OK == 200
HTTP_201_CREATED == 201
HTTP_204_NO_CONTENT == 204
HTTP_400_BAD_REQUEST == 400
HTTP_401_UNAUTHORIZED == 401
HTTP_403_FORBIDDEN == 403
HTTP_404_NOT_FOUND == 404
HTTP_422_UNPROCESSABLE == 422
HTTP_500_INTERNAL_SERVER_ERROR == 500

NoJob == 0

Email(l, d) == [local |-> l, domain |-> d]
NoEmail == Email("", "")

\* the response of a request: operation, bearer token, job id (path), status
\* code, detail or payload kind, the application ids / counters returned, and
\* what the request carried: the email (register), the resume file name and
\* the lengths of name and phone (apply)
Response(op, tok, job, status, body) ==
    [op |-> op, tok |-> tok, job |-> job, status |-> status, body |-> body,
     email |-> NoEmail, file |-> <<>>, form |-> <<>>, data |-> <<>>,
     headers |-> {}, secret |-> <<>>, access_token |-> [kind |-> "none"],
     rows |-> <<>>]

----------------------------------------------------------------------------
(* Bearer tokens: absent, not verifiable (bad signature, expired, no sub), *)
(* or a verifiable token whose sub claim is a user id.                     *)

NoToken == [kind |-> "none"]
BadToken == [kind |-> "bad"]
Jwt(sub) == [kind |-> "jwt", sub |-> sub]

NoResp == Response("none", NoToken, NoJob, 0, "")

\* the response leaves the server; requests are taken one after the other
send_response ==
    /\ resp # NoResp
    /\ resp' = NoResp
    /\ UNCHANGED <<db, req, ev>>

UserIds == 1 .. Len(users)

\* every token a request can carry in the current state: the sub of a
\* verifiable token may name an id that is not (or no longer) in the database
Tokens == {NoToken, BadToken} \cup {Jwt(u) : u \in 1 .. (Len(users) + 1)}

\* get_current_user: 401 unless the token verifies and its sub is a stored user
get_current_user(tok) ==
    IF tok.kind = "none"
    THEN [status |-> HTTP_401_UNAUTHORIZED, detail |-> "Not authenticated", user |-> 0]
    ELSE IF tok.kind = "bad"
    THEN [status |-> HTTP_401_UNAUTHORIZED, detail |-> "Could not validate credentials", user |-> 0]
    ELSE IF tok.sub \notin UserIds
    THEN [status |-> HTTP_401_UNAUTHORIZED, detail |-> "User not found", user |-> 0]
    ELSE [status |-> HTTP_200_OK, detail |-> "", user |-> tok.sub]

\* variant of RequireRole that lets every authenticated role through
RequireRole_anyRole(tok, role, denied) == get_current_user(tok)

\* get_current_employer / get_current_candidate: 403 on a role mismatch
RequireRole(tok, role, denied) ==
    LET cu == get_current_user(tok) IN
    IF cu.status # HTTP_200_OK THEN cu
    ELSE IF users[cu.user].role # role
    THEN [status |-> HTTP_403_FORBIDDEN, detail |-> denied, user |-> 0]
    ELSE cu

get_current_employer(tok) ==
    RequireRole(tok, "employer", "Only employers can access this resource")

get_current_candidate(tok) ==
    RequireRole(tok, "candidate", "Only candidates can access this resource")

----------------------------------------------------------------------------
(* Registration *)

\* EmailStr validation keeps the local part and lower-cases the domain
LowerDomain(d) == IF d = "X.IO" THEN "x.io" ELSE d
NormalizeEmail(e) == [local |-> e.local, domain |-> LowerDomain(e.domain)]

\* a password is given by its runs of equal characters: the character, the
\* number of bytes of its UTF-8 encoding, and how often it is repeated
Run(c, w, n) == [c |-> c, w |-> w, n |-> n]

\* len(password)
RECURSIVE CharLen(_)
CharLen(pw) == IF pw = <<>> THEN 0 ELSE Head(pw).n + CharLen(Tail(pw))

\* len(password.encode('utf-8'))
RECURSIVE Utf8Len(_)
Utf8Len(pw) == IF pw = <<>> THEN 0 ELSE Head(pw).w * Head(pw).n + Utf8Len(Tail(pw))

\* password[:k]
RECURSIVE Slice(_, _)
Slice(pw, k) ==
    IF pw = <<>> \/ k <= 0 THEN <<>>
    ELSE IF Head(pw).n >= k THEN <<Run(Head(pw).c, Head(pw).w, k)>>
    ELSE <<Head(pw)>> \o Slice(Tail(pw), k - Head(pw).n)

\* the first k bytes of the encoded password; a character cut in the middle
\* is left as a run of fewer bytes than the character has
RECURSIVE Utf8Cut(_, _)
Utf8Cut(pw, k) ==
    IF pw = <<>> \/ k <= 0 THEN <<>>
    ELSE LET h == Head(pw)
             whole == Min(h.n, k \div h.w)
             left == k - whole * h.w
         IN  (IF whole > 0 THEN <<Run(h.c, h.w, whole)>> ELSE <<>>)
             \o (IF whole = h.n THEN Utf8Cut(Tail(pw), left)
                 ELSE IF left > 0 THEN <<Run(h.c, left, 1)>> ELSE <<>>)

PASSWORD_TRUNCATE == 50
BCRYPT_LIMIT == 72

PwGood == <<Run("s", 1, 7)>>
PwShort == <<Run("a", 1, 3)>>
PwWide == <<Run("e-acute", 2, 50)>>

\* the bcrypt backend of pwd_context takes at most 72 bytes of a secret: one
\* that cuts a longer secret to its first 72 bytes, or one that raises on it
Backends == {"truncates", "raises"}

\* password[:50], as both functions take it before they call pwd_context
password_truncated_whole(password) == password
password_truncated(password) == Slice(password, PASSWORD_TRUNCATE)

\* hash_password: ValueError above 72 bytes, else the hash of password[:50]
hash_password_raises(pw) == Utf8Len(pw) > BCRYPT_LIMIT
hash_password(pw) == [bcrypt |-> Utf8Cut(password_truncated(pw), BCRYPT_LIMIT)]

\* verify_password: plain_password[:50] against the hash, False on any error
verify_password(plain_password, hashed_password, backend) ==
    LET secret == password_truncated(plain_password) IN
    IF Utf8Len(secret) > BCRYPT_LIMIT /\ backend = "raises" THEN FALSE
    ELSE Utf8Cut(secret, BCRYPT_LIMIT) = hashed_password.bcrypt

\* a text value as the handlers see it: an identity and its length
Str(s, len) == [s |-> s, len |-> len]

\* UserCreate: name 2..100 chars, password 6..50 chars
UserCreateValid(name, pw) ==
    /\ name.len >= 2 /\ name.len <= 100
    /\ CharLen(pw) >= 6 /\ CharLen(pw) <= 50

EmailTaken(email) == \E i \in UserIds : users[i].email = email

register(name, rawEmail, role, pw) ==
    LET email == NormalizeEmail(rawEmail) IN
    /\ req = None /\ resp = NoResp
    /\ (UserCreateValid(name, pw) /\ ~EmailTaken(email) /\ ~hash_password_raises(pw))
         => Len(users) < MaxUsers
    /\ UNCHANGED <<jobs, nextJobId, applications, nextAppId, files, messages, req, ev>>
    /\ IF ~UserCreateValid(name, pw)
       THEN /\ resp' = [Response("register", NoToken, NoJob, HTTP_422_UNPROCESSABLE, "validation error") EXCEPT !.email = rawEmail, !.secret = pw]
            /\ UNCHANGED users
       ELSE IF EmailTaken(email)
       THEN /\ resp' = [Response("register", NoToken, NoJob, HTTP_400_BAD_REQUEST, "Email already registered") EXCEPT !.email = rawEmail, !.secret = pw]
            /\ UNCHANGED users
       ELSE IF hash_password_raises(pw)
       THEN /\ resp' = [Response("register", NoToken, NoJob, HTTP_500_INTERNAL_SERVER_ERROR, "Internal Server Error") EXCEPT !.email = rawEmail, !.secret = pw]
            /\ UNCHANGED users
       ELSE /\ users' = Append(users, [id |-> Len(users) + 1, name |-> name, email |-> email,
                                       phone |-> None, role |-> role,
                                       hashed_password |-> hash_password(pw)])
            /\ resp' = [Response("register", NoToken, NoJob, HTTP_201_CREATED, "created") EXCEPT !.email = rawEmail, !.secret = pw]

\* login: the two refusals are separate raise statements of the handler
login_user_not_found_distinct ==
    [status |-> HTTP_401_UNAUTHORIZED, detail |-> "Email not registered",
     headers |-> {<<"WWW-Authenticate", "Bearer">>}]

login_user_not_found ==
    [status |-> HTTP_401_UNAUTHORIZED, detail |-> "Invalid email or password",
     headers |-> {<<"WWW-Authenticate", "Bearer">>}]

login_wrong_password ==
    [status |-> HTTP_401_UNAUTHORIZED, detail |-> "Invalid email or password",
     headers |-> {<<"WWW-Authenticate", "Bearer">>}]

login(rawEmail, password, backend) ==
    LET email == NormalizeEmail(rawEmail)
        found == {i \in UserIds : users[i].email = email}
        user == users[CHOOSE i \in found : TRUE]
        Refused(r) == [Response("login", NoToken, NoJob, r.status, r.detail)
                          EXCEPT !.headers = r.headers]
    IN
    /\ req = None /\ resp = NoResp
    /\ UNCHANGED <<db, req, ev>>
    /\ resp' =
         [IF found = {} THEN Refused(login_user_not_found)
          ELSE IF ~verify_password(password, user.hashed_password, backend)
          THEN Refused(login_wrong_password)
          ELSE [Response("login", NoToken, NoJob, HTTP_200_OK, "token")
                  EXCEPT !.access_token = Jwt(user.id),
                         !.data = <<user.id>>]
         EXCEPT !.email = rawEmail, !.secret = password]

----------------------------------------------------------------------------
(* Resume screening (utils/resume_parser.py)                               *)
(*                                                                         *)
(* A resume is given by what the extraction functions find in its text:    *)
(*   text     TRUE iff read_text_from_file returns non-blank text          *)
(*   phrases  the keywords that occur in the normalized text               *)
(*   skills   the canonical candidate skills                               *)
(*   years    the estimated years of experience                            *)
(*   level, field, grade   the highest qualification (grade in percent)    *)
(*   auth     a work-authorization phrase occurs                           *)
(*   cos      the TF-IDF cosine of the skill documents, in percent         *)

DEGREE_ORDER ==
    ("none" :> 0) @@ ("10th" :> 1) @@ ("12th" :> 2) @@ ("diploma" :> 2) @@
    ("bachelor" :> 3) @@ ("master" :> 4) @@ ("phd" :> 5)

\* kw in normalized_text: the empty keyword is a substring of every text
Contains(r, kw) == kw = "" \/ kw \in r.phrases

\* normalize_field_name on the fields of the model: synonyms map to their
\* canonical field
normalize_field_name(f) == IF f = "cse" THEN "computer science" ELSE f

\* check_field_match: an exact match of normalized names (the related-field
\* rules add nothing on the fields of the model)
check_field_match(candidate_field, required_fields, accept_related) ==
    \E f \in required_fields :
        normalize_field_name(candidate_field) = normalize_field_name(f)

\* compute_similarity, in 1/10000
compute_similarity(candidate_skills, required_skills, cos) ==
    IF candidate_skills = {} \/ required_skills = {} THEN 0
    ELSE (6000 * Cardinality(candidate_skills \cap required_skills))
            \div Cardinality(required_skills) + 40 * cos

\* w * min(1.0, num / den), den > 0
Scaled(w, num, den) == IF num >= den THEN w ELSE (w * num) \div den

OptionalGates == {"all", "any", "experience", "education", "work_auth", "similarity"}

Raised(msg) ==
    [raised |-> TRUE, error |-> msg, decision |-> "", score |-> None,
     checks |-> [k \in OptionalGates \cup {"forbidden"} |-> FALSE],
     passed_optional |-> 0, scoring_enabled |-> FALSE, score_threshold |-> 0]

Returned(decision, score, checks, passed_optional, scoring_enabled, score_threshold, msg) ==
    [raised |-> FALSE, error |-> msg, decision |-> decision, score |-> score,
     checks |-> checks, passed_optional |-> passed_optional,
     scoring_enabled |-> scoring_enabled, score_threshold |-> score_threshold]

\* variant of ExperienceSubstitute that does not look at the years
ExperienceSubstitute_anyYears(enabled, check_degree_req, years_experience, required_exp_years) ==
    enabled /\ ~check_degree_req

\* the alternative path: enabled, degree requirement failed, enough years
ExperienceSubstitute(enabled, check_degree_req, years_experience, required_exp_years) ==
    enabled /\ ~check_degree_req /\ years_experience >= required_exp_years

\* the education check of evaluate_resume (education enabled): the three
\* component checks, or the first attribute error on a null sub-object
EducationCheck(r, education_req) ==
    LET min_qual_o == Get(education_req, "minimum_qualification", Some(EmptyDict))
        degree_req_o == Get(education_req, "degree_requirement", Some(EmptyDict))
        alt_paths_o == Get(education_req, "alternative_paths", Some(EmptyDict))
    IN
    IF min_qual_o = None THEN [raised |-> TRUE]
    ELSE
    LET min_qual_config == Val(min_qual_o)
        min_level_required == Get(min_qual_config, "level", "12th_diploma")
        candidate_level_order == Get(DEGREE_ORDER, r.level, 0)
        required_level_order ==
            IF min_level_required = "12th_diploma" THEN 2
            ELSE Get(DEGREE_ORDER, min_level_required, 0)
        check_min_level == candidate_level_order >= required_level_order
        min_grade_o == Get(min_qual_config, "grade", Some(EmptyDict))
    IN
    IF min_grade_o = None \/ degree_req_o = None \/ alt_paths_o = None
    THEN [raised |-> TRUE]
    ELSE
    LET min_grade_config == Val(min_grade_o)
        check_min_grade ==
            IF Get(min_grade_config, "required", FALSE) /\ r.grade # None
            THEN Val(r.grade) >= Get(min_grade_config, "normalized", 0)
            ELSE TRUE
        degree_req_config == Val(degree_req_o)
        degree_enabled == Get(degree_req_config, "enabled", FALSE)
        check_degree_level ==
            candidate_level_order >= Get(DEGREE_ORDER, Get(degree_req_config, "level", "bachelor"), 0)
        required_fields == Get(degree_req_config, "fields", {})
        field_match ==
            IF r.field # None /\ required_fields # {}
            THEN check_field_match(Val(r.field), required_fields,
                                   Get(degree_req_config, "accept_related_fields", FALSE))
            ELSE FALSE
        degree_grade_o == Get(degree_req_config, "grade", Some(EmptyDict))
        check_degree_grade ==
            IF degree_grade_o # None /\ DOMAIN Val(degree_grade_o) # {} /\ r.grade # None
            THEN Val(r.grade) >= Get(Val(degree_grade_o), "normalized", 0)
            ELSE TRUE
        check_degree_req0 ==
            IF degree_enabled
            THEN check_degree_level /\ field_match /\ check_degree_grade
            ELSE TRUE
        exp_substitute_o == Get(Val(alt_paths_o), "experience_substitute", Some(EmptyDict))
    IN
    IF exp_substitute_o = None THEN [raised |-> TRUE]
    ELSE
    LET exp_substitute == Val(exp_substitute_o)
        substituted ==
            ExperienceSubstitute(Get(exp_substitute, "enabled", FALSE), check_degree_req0,
                                 r.years, Get(exp_substitute, "years_required", 5))
        check_degree_req == check_degree_req0 \/ substituted
    IN
    [raised |-> FALSE,
     check_min_level |-> check_min_level,
     check_min_grade |-> check_min_grade,
     check_degree_req0 |-> check_degree_req0,
     substituted |-> substituted,
     check_degree_req |-> check_degree_req,
     check_education |-> check_min_level /\ check_min_grade /\ check_degree_req,
     min_level_required |-> min_level_required,
     candidate_level_order |-> candidate_level_order]

\* the education part of the score (education enabled), in hundredths
EducationScore(r, edu, w_edu) ==
    LET required_level_order ==
            Get(DEGREE_ORDER,
                IF edu.min_level_required # "12th_diploma" THEN edu.min_level_required ELSE "12th",
                0)
        level_part ==
            IF edu.min_level_required # ""
            THEN Scaled(w_edu \div 2, edu.candidate_level_order, Max(required_level_order, 1))
            ELSE 0
        grade_part ==
            IF r.grade # None
            THEN Scaled(w_edu \div 2, Val(r.grade), 100)
            ELSE w_edu \div 2
    IN level_part + grade_part

\* variant of CapScore without the cap
CapScore_uncapped(raw) == raw

\* score = min(100.0, round(score, 2)), in hundredths
CapScore(raw) == Min(10000, raw)

\* variant of FinalDecision without the critical gate
FinalDecision_ungated(passed_critical, passed_optional, scoring_enabled, score, score_threshold) ==
    IF scoring_enabled /\ score # None
    THEN Val(score) >= score_threshold \/ passed_optional >= 4
    ELSE passed_optional >= 4

\* passed = passed_critical and (score >= threshold or passed_optional >= 4),
\* or passed_critical and passed_optional >= 4 when scoring is disabled
FinalDecision(passed_critical, passed_optional, scoring_enabled, score, score_threshold) ==
    IF scoring_enabled /\ score # None
    THEN passed_critical /\ (Val(score) >= score_threshold \/ passed_optional >= 4)
    ELSE passed_critical /\ passed_optional >= 4

\* variant of AnyNeeded that enforces the whole configured minimum
AnyNeeded_whole(any_min) == Max(1, any_min)

\* max(1, any_min // 2): the matches the required-any check asks for
AnyNeeded(any_min) == Max(1, any_min \div 2)

evaluate_resume(r, rules, jd_skills) ==
    IF ~r.text
    THEN Returned("rejected", Some(0), [k \in OptionalGates \cup {"forbidden"} |-> FALSE],
                  0, FALSE, 0, "Could not extract text from resume")
    ELSE
    LET required_all_o == Get(rules, "required_all", Some({}))
        required_any_o == Get(rules, "required_any", Some({}))
        any_min == Get(rules, "any_min", 0)
        min_years == Get(rules, "min_years", 0)
        forbidden_o == Get(rules, "forbidden_keywords", Some({}))
        similarity_threshold_o == Get(rules, "similarity_threshold", Some(3000))
        education_req_o == Get(rules, "education_requirements", Some(EmptyDict))
        scoring_o == Get(rules, "scoring", Some(EmptyDict))
    IN
    IF required_all_o = None \/ required_any_o = None \/ forbidden_o = None
    THEN Raised("'NoneType' object is not iterable")
    ELSE IF education_req_o = None \/ scoring_o = None
    THEN Raised("'NoneType' object has no attribute 'get'")
    ELSE
    LET required_all == Val(required_all_o)
        required_any == Val(required_any_o)
        education_req == Val(education_req_o)
        education_enabled == Get(education_req, "enabled", FALSE)
        scoring_config == Val(scoring_o)
        scoring_enabled == Get(scoring_config, "enabled", TRUE)
        score_threshold == Get(scoring_config, "threshold", 5000)
        weights == Get(scoring_config, "weights", EmptyDict)
        \* 1. forbidden keywords
        forbidden_found == {kw \in Val(forbidden_o) : Contains(r, kw)}
        check_forbidden == forbidden_found = {}
        \* 2. required-all skills
        matched_all == required_all \cap r.skills
        check_all ==
            IF required_all # {}
            THEN 2 * Cardinality(matched_all) >= Cardinality(required_all)
            ELSE TRUE
        \* 3. required-any skills
        matched_any == required_any \cap r.skills
        check_any ==
            IF required_any # {}
            THEN Cardinality(matched_any) >= AnyNeeded(any_min)
            ELSE TRUE
        \* 4. experience
        check_experience ==
            IF min_years > 0 THEN 10 * r.years >= 8 * min_years ELSE TRUE
        \* 5. education
        edu == IF education_enabled THEN EducationCheck(r, education_req)
               ELSE [raised |-> FALSE, check_education |-> TRUE]
    IN
    IF edu.raised THEN Raised("'NoneType' object has no attribute 'get'")
    ELSE IF similarity_threshold_o = None
    THEN Raised("'>=' not supported between instances of 'float' and 'NoneType'")
    ELSE
    LET similarity_threshold == Val(similarity_threshold_o)
        check_education == edu.check_education
        \* 6. work authorization
        check_work_auth ==
            IF Get(rules, "require_work_auth", FALSE) THEN r.auth ELSE TRUE
        \* 7. similarity
        target0 == required_all \cup required_any
        target_skills == IF target0 = {} THEN jd_skills ELSE target0
        similarity ==
            IF target_skills # {}
            THEN compute_similarity(r.skills, target_skills, r.cos)
            ELSE 10000
        check_similarity == similarity >= similarity_threshold
        \* scoring with partial credit
        w_all == Get(weights, "skills_all", 2500)
        w_any == Get(weights, "skills_any", 1500)
        w_exp == Get(weights, "experience", 1500)
        w_sim == Get(weights, "similarity", 2000)
        w_edu == Get(weights, "education", 2500)
        s_all == IF required_all # {}
                 THEN (w_all * Cardinality(matched_all)) \div Cardinality(required_all)
                 ELSE w_all
        s_any == IF required_any # {} /\ any_min > 0
                 THEN Scaled(w_any, Cardinality(matched_any), any_min)
                 ELSE w_any
        s_exp == IF min_years > 0 THEN Scaled(w_exp, r.years, min_years) ELSE w_exp
        s_sim == Scaled(w_sim, similarity, Max(similarity_threshold, 100))
        s_edu == IF education_enabled THEN EducationScore(r, edu, w_edu) ELSE w_edu
        score == IF scoring_enabled
                 THEN Some(CapScore(s_all + s_any + s_exp + s_sim + s_edu))
                 ELSE None
        \* final decision
        checks == [forbidden |-> check_forbidden, all |-> check_all, any |-> check_any,
                   experience |-> check_experience, education |-> check_education,
                   work_auth |-> check_work_auth, similarity |-> check_similarity]
        passed_critical == check_forbidden
        passed_optional == Cardinality({k \in OptionalGates : checks[k]})
        passed == FinalDecision(passed_critical, passed_optional, scoring_enabled,
                                score, score_threshold)
    IN
    Returned(IF passed THEN "selected" ELSE "rejected", score, checks,
             passed_optional, scoring_enabled, score_threshold, "")

----------------------------------------------------------------------------
(* Job postings (routers/jobs.py, schemas/job.py, models/job.py) *)

DefaultWeights ==
    [skills_all |-> 2500, skills_any |-> 1500, experience |-> 1500,
     similarity |-> 2000, education |-> 2500]

DefaultScoring == [enabled |-> TRUE, threshold |-> 5000, weights |-> DefaultWeights]

\* JobRules(**given).dict(): every field of the schema, unset ones at their
\* schema default (the fields evaluate_resume never reads are left out)
JobRulesDefaults ==
    [required_all |-> Some({}), required_any |-> Some({}), any_min |-> 0,
     min_years |-> 0, forbidden_keywords |-> Some({}),
     similarity_threshold |-> Some(3000), education_requirements |-> None,
     require_work_auth |-> FALSE, scoring |-> Some(DefaultScoring)]

JobRules(given) ==
    [k \in DOMAIN JobRulesDefaults |-> Get(given, k, JobRulesDefaults[k])]

\* EducationRequirements(**given).dict()
EducationRequirementsDefaults ==
    [enabled |-> FALSE, minimum_qualification |-> None,
     degree_requirement |-> None, alternative_paths |-> None]

EducationRequirements(given) ==
    [k \in DOMAIN EducationRequirementsDefaults |->
        Get(given, k, EducationRequirementsDefaults[k])]

\* JobCreate: title and company of 1..200 characters
JobCreateValid(title, company) ==
    /\ title.len >= 1 /\ title.len <= 200
    /\ company.len >= 1 /\ company.len <= 200

JobIds == DOMAIN jobs

\* db.query(Job).filter(Job.id == job_id, Job.employer_id == current_user.id)
OwnedJob(job_id, user_id) ==
    job_id \in JobIds /\ jobs[job_id].employer_id = user_id

\* variant of ActiveJob without the is_active filter
ActiveJob_anyJob(job_id) == job_id \in JobIds

\* db.query(Job).filter(Job.id == job_id, Job.is_active == True)
ActiveJob(job_id) ==
    job_id \in JobIds /\ jobs[job_id].is_active

AppsOfJob(job_id) == {a \in applications : a.job_id = job_id}

Fail(op, tok, job_id, r) == Response(op, tok, job_id, r.status, r.detail)

NotOwned(op, tok, job_id) ==
    Response(op, tok, job_id, HTTP_404_NOT_FOUND, "Job not found or you don't have permission")

create_job(tok, title, company, jd_skills, rules) ==
    LET cu == get_current_employer(tok)
        creates == cu.status = HTTP_200_OK /\ JobCreateValid(title, company)
    IN
    /\ req = None /\ resp = NoResp
    /\ creates => nextJobId <= MaxJobs
    /\ UNCHANGED <<users, applications, nextAppId, files, messages, req, ev>>
    /\ IF cu.status # HTTP_200_OK
       THEN /\ resp' = Fail("create_job", tok, NoJob, cu)
            /\ UNCHANGED <<jobs, nextJobId>>
       ELSE IF ~JobCreateValid(title, company)
       THEN /\ resp' = Response("create_job", tok, NoJob, HTTP_422_UNPROCESSABLE, "validation error")
            /\ UNCHANGED <<jobs, nextJobId>>
       ELSE /\ jobs' = jobs @@ (nextJobId :>
                         [id |-> nextJobId, title |-> title, company |-> company,
                          description |-> jd_skills, employer_id |-> cu.user,
                          is_active |-> TRUE, rules |-> rules])
            /\ nextJobId' = nextJobId + 1
            /\ resp' = Response("create_job", tok, nextJobId, HTTP_201_CREATED, "job")

\* setattr(job, field, value) for every field the request supplied
ApplyUpdate(job, update_data) ==
    [k \in DOMAIN job |-> IF k \in DOMAIN update_data THEN update_data[k] ELSE job[k]]

\* JobUpdate puts no constraint on a field, so a title or company of any
\* length, or null, reaches setattr; title and company are NOT NULL columns,
\* so a null makes the commit raise and nothing is stored
update_job(tok, job_id, update_data) ==
    LET cu == get_current_employer(tok)
        not_null == {"title", "company"} \cap DOMAIN update_data
        values == [k \in DOMAIN update_data |->
                      IF k \in not_null THEN Val(update_data[k]) ELSE update_data[k]]
    IN
    /\ req = None /\ resp = NoResp
    /\ UNCHANGED <<users, nextJobId, applications, nextAppId, files, messages, req, ev>>
    /\ IF cu.status # HTTP_200_OK
       THEN /\ resp' = [Fail("update_job", tok, job_id, cu) EXCEPT !.rows = <<update_data>>]
            /\ UNCHANGED jobs
       ELSE IF ~OwnedJob(job_id, cu.user)
       THEN /\ resp' = [NotOwned("update_job", tok, job_id) EXCEPT !.rows = <<update_data>>]
            /\ UNCHANGED jobs
       ELSE IF \E k \in not_null : update_data[k] = None
       THEN /\ resp' = [Response("update_job", tok, job_id, HTTP_500_INTERNAL_SERVER_ERROR,
                                 "Internal Server Error")
                          EXCEPT !.rows = <<update_data>>]
            /\ UNCHANGED jobs
       ELSE /\ jobs' = [jobs EXCEPT ![job_id] = ApplyUpdate(@, values)]
            /\ resp' = [Response("update_job", tok, job_id, HTTP_200_OK, "job")
                          EXCEPT !.rows = <<update_data>>]

\* db.delete(job): the applications relationship cascades "all, delete-orphan"
CascadeDelete(job_id) == {a \in applications : a.job_id # job_id}

delete_job(tok, job_id) ==
    LET cu == get_current_employer(tok) IN
    /\ req = None /\ resp = NoResp
    /\ UNCHANGED <<users, nextJobId, nextAppId, files, messages, req, ev>>
    /\ IF cu.status # HTTP_200_OK
       THEN /\ resp' = Fail("delete_job", tok, job_id, cu)
            /\ UNCHANGED <<jobs, applications>>
       ELSE IF ~OwnedJob(job_id, cu.user)
       THEN /\ resp' = NotOwned("delete_job", tok, job_id)
            /\ UNCHANGED <<jobs, applications>>
       ELSE /\ jobs' = [j \in JobIds \ {job_id} |-> jobs[j]]
            /\ applications' = CascadeDelete(job_id)
            /\ resp' = Response("delete_job", tok, job_id, HTTP_204_NO_CONTENT, "")

----------------------------------------------------------------------------
(* Applying to a job (routers/jobs.py apply_to_job)                        *)
(* A file name is its sequence of characters.                              *)

UpperToLower ==
    ("P" :> "p") @@ ("D" :> "d") @@ ("F" :> "f") @@ ("T" :> "t") @@ ("X" :> "x")

lower(cs) == [i \in 1 .. Len(cs) |-> Get(UpperToLower, cs[i], cs[i])]

\* os.path.splitext(p)[1]: from the last dot on, unless nothing but dots
\* comes before it
splitext(p) ==
    LET dots == {i \in 1 .. Len(p) : p[i] = "."}
        dotIndex == IF dots = {} THEN 0 ELSE CHOOSE i \in dots : \A j \in dots : j <= i
    IN IF dotIndex = 0 \/ (\A i \in 1 .. (dotIndex - 1) : p[i] = ".")
       THEN <<>>
       ELSE SubSeq(p, dotIndex, Len(p))

IsNotDot(c) == c # "."

\* os.path.splitext(resume.filename)[1].lower().replace(".", "")
file_extension(filename) == SelectSeq(lower(splitext(filename)), IsNotDot)

\* settings.allowed_extensions_list for ALLOWED_EXTENSIONS = "pdf,docx,txt"
allowed_extensions_list ==
    {<<"p", "d", "f">>, <<"d", "o", "c", "x">>, <<"t", "x", "t">>}

\* {UPLOAD_DIR}/jobs/{job_id}/uploads/{user_id}_{timestamp}_{filename}
ResumePath(job_id, user_id, filename) ==
    [job |-> job_id, user |-> user_id, filename |-> filename]

\* variant of existing_application that never finds a row
existing_application_none(job_id, user_id) == FALSE

\* the existence check of apply_to_job
existing_application(job_id, user_id) ==
    \E a \in applications : a.job_id = job_id /\ a.candidate_id = user_id

\* variant of Screening that files an evaluation error as a rejection
Screening_rejecting(resume, job) ==
    LET job_rules == IF job.rules # None /\ DOMAIN Val(job.rules) # {}
                     THEN Val(job.rules) ELSE EmptyDict
        evaluation == evaluate_resume(resume, job_rules, job.description)
    IN [status |-> IF evaluation.decision = "selected" THEN "selected" ELSE "rejected",
        score |-> evaluation.score,
        explanation |-> [error |-> evaluation.error, note |-> "",
                         decision |-> evaluation.decision]]

\* the outcome of the screening try block: status, score and explanation
Screening(resume, job) ==
    LET job_rules == IF job.rules # None /\ DOMAIN Val(job.rules) # {}
                     THEN Val(job.rules) ELSE EmptyDict
        evaluation == evaluate_resume(resume, job_rules, job.description)
    IN IF evaluation.raised
       THEN [status |-> "pending", score |-> None,
             explanation |-> [error |-> evaluation.error, note |-> "Manual review required",
                              decision |-> ""]]
       ELSE [status |-> IF evaluation.decision = "selected" THEN "selected" ELSE "rejected",
             score |-> evaluation.score,
             explanation |-> [error |-> evaluation.error, note |-> "",
                              decision |-> evaluation.decision]]

NoScreening == [status |-> "", score |-> None,
                explanation |-> [error |-> "", note |-> "", decision |-> ""]]

\* Form(...) fields: an empty value counts as missing
FormPresent(name, phone) == name.len > 0 /\ phone.len > 0

\* checks, then the resume file is written
apply_to_job_begin(tok, job_id, name, phone, filename, resume) ==
    LET cu == get_current_candidate(tok)
        rejected ==
            IF cu.status # HTTP_200_OK THEN Fail("apply_to_job", tok, job_id, cu)
            ELSE IF ~FormPresent(name, phone)
            THEN Response("apply_to_job", tok, job_id, HTTP_422_UNPROCESSABLE, "validation error")
            ELSE IF ~ActiveJob(job_id)
            THEN Response("apply_to_job", tok, job_id, HTTP_404_NOT_FOUND, "Job not found or inactive")
            ELSE IF existing_application(job_id, cu.user)
            THEN Response("apply_to_job", tok, job_id, HTTP_400_BAD_REQUEST,
                          "You have already applied to this job")
            ELSE IF file_extension(filename) \notin allowed_extensions_list
            THEN Response("apply_to_job", tok, job_id, HTTP_400_BAD_REQUEST, "File type not allowed")
            ELSE NoResp
        resume_path == ResumePath(job_id, cu.user, filename)
    IN
    /\ req = None /\ resp = NoResp
    /\ rejected = NoResp => nextAppId <= MaxApps
    /\ UNCHANGED <<users, jobs, nextJobId, applications, nextAppId, messages, ev>>
    /\ IF rejected # NoResp
       THEN /\ resp' = [rejected EXCEPT !.file = filename,
                                         !.form = <<name.len, phone.len>>]
            /\ UNCHANGED <<files, req>>
       ELSE /\ files' = [q \in DOMAIN files \cup {resume_path} |->
                            IF q = resume_path THEN resume ELSE files[q]]
            /\ req' = Some([tok |-> tok, user |-> cu.user, job_id |-> job_id,
                            job |-> jobs[job_id], name |-> name, phone |-> phone,
                            resume_path |-> resume_path, pc |-> "saved",
                            screening |-> NoScreening, application_id |-> 0,
                            emails |-> <<>>])
            /\ UNCHANGED resp

\* evaluate_resume on the saved file, inside the try block
apply_to_job_screen ==
    /\ req # None /\ Val(req).pc = "saved"
    /\ LET q == Val(req) IN
       req' = Some([q EXCEPT !.pc = "screened",
                             !.screening = Screening(files[q.resume_path], q.job)])
    /\ UNCHANGED <<db, resp, ev>>

\* db.add(new_application); db.commit(); db.refresh(new_application)
apply_to_job_commit ==
    /\ req # None /\ Val(req).pc = "screened"
    /\ LET q == Val(req) IN
       /\ applications' = applications \cup
            {[id |-> nextAppId, job_id |-> q.job_id, candidate_id |-> q.user,
              name |-> q.name, phone |-> q.phone, resume_path |-> q.resume_path,
              status |-> q.screening.status, score |-> q.screening.score,
              explanation |-> q.screening.explanation]}
       /\ nextAppId' = nextAppId + 1
       /\ req' = Some([q EXCEPT !.pc = "committed", !.application_id = nextAppId])
    /\ UNCHANGED <<users, jobs, nextJobId, files, messages, resp, ev>>

\* the three notification emails inside one try block: each send returns
\* True or False, and an exception skips the remaining ones
EmailOutcomes ==
    {<<"sent", "sent", "sent">>, <<"failed", "failed", "failed">>,
     <<"sent", "failed", "raised">>, <<"raised">>}

\* variant of apply_to_job_notify in which an exception while sending rolls
\* the new row back
apply_to_job_notify_rollback(outcome) ==
    /\ req # None /\ Val(req).pc = "committed"
    /\ req' = Some([Val(req) EXCEPT !.pc = "notified", !.emails = outcome])
    /\ applications' =
         IF \E i \in 1 .. Len(outcome) : outcome[i] = "raised"
         THEN {a \in applications : a.id # Val(req).application_id}
         ELSE applications
    /\ UNCHANGED <<users, jobs, nextJobId, nextAppId, files, messages, resp, ev>>

\* the emails are attempted after the commit
apply_to_job_notify(outcome) ==
    /\ req # None /\ Val(req).pc = "committed"
    /\ req' = Some([Val(req) EXCEPT !.pc = "notified", !.emails = outcome])
    /\ UNCHANGED <<db, resp, ev>>

\* return new_application
apply_to_job_return ==
    /\ req # None /\ Val(req).pc = "notified"
    /\ LET q == Val(req) IN
       resp' = [Response("apply_to_job", q.tok, q.job_id, HTTP_201_CREATED, q.screening.status)
                  EXCEPT !.data = <<q.application_id>>, !.file = q.resume_path.filename,
                         !.form = <<q.name.len, q.phone.len>>]
    /\ req' = None
    /\ UNCHANGED <<db, ev>>

----------------------------------------------------------------------------
(* Employer and candidate views of the applications (routers/jobs.py) *)

\* a precedes b under ORDER BY score DESC NULLS LAST (ties by id)
ScoreBefore(a, b) ==
    IF a.score = None THEN b.score = None /\ a.id < b.id
    ELSE IF b.score = None THEN TRUE
    ELSE Val(a.score) > Val(b.score) \/ (Val(a.score) = Val(b.score) /\ a.id < b.id)

RECURSIVE OrderByScore(_)
OrderByScore(S) ==
    IF S = {} THEN <<>>
    ELSE LET first == CHOOSE a \in S : \A b \in S \ {a} : ScoreBefore(a, b)
         IN <<first.id>> \o OrderByScore(S \ {first})

RECURSIVE OrderByIdDesc(_)
OrderByIdDesc(S) ==
    IF S = {} THEN <<>>
    ELSE LET first == CHOOSE a \in S : \A b \in S : b.id <= a.id
         IN <<first.id>> \o OrderByIdDesc(S \ {first})

\* the parameter named status hides fastapi.status in this handler: the
\* NotFound branch evaluates status.HTTP_404_NOT_FOUND on the filter value
\* and fails with an AttributeError, which the server answers with 500
get_job_applications(tok, job_id, status) ==
    LET cu == get_current_employer(tok)
        found == IF status = None THEN AppsOfJob(job_id)
                 ELSE {a \in AppsOfJob(job_id) : a.status = Val(status)}
    IN
    /\ req = None /\ resp = NoResp
    /\ UNCHANGED <<db, req, ev>>
    /\ resp' =
         IF cu.status # HTTP_200_OK THEN Fail("get_job_applications", tok, job_id, cu)
         ELSE IF ~OwnedJob(job_id, cu.user)
         THEN Response("get_job_applications", tok, job_id,
                       HTTP_500_INTERNAL_SERVER_ERROR, "Internal Server Error")
         ELSE [Response("get_job_applications", tok, job_id, HTTP_200_OK, "applications")
                 EXCEPT !.data = OrderByScore(found)]

get_my_applications(tok) ==
    LET cu == get_current_candidate(tok) IN
    /\ req = None /\ resp = NoResp
    /\ UNCHANGED <<db, req, ev>>
    /\ resp' =
         IF cu.status # HTTP_200_OK THEN Fail("get_my_applications", tok, NoJob, cu)
         ELSE [Response("get_my_applications", tok, NoJob, HTTP_200_OK, "applications")
                 EXCEPT !.data = OrderByIdDesc({a \in applications : a.candidate_id = cu.user})]

\* variant of CountStatus that counts the applications of the other statuses
CountStatus_others(S, st) == Cardinality({a \in S : a.status # st})

\* len([a for a in applications if a.status == st])
CountStatus(S, st) == Cardinality({a \in S : a.status = st})

get_job_stats(tok, job_id) ==
    LET cu == get_current_employer(tok)
        found == AppsOfJob(job_id)
    IN
    /\ req = None /\ resp = NoResp
    /\ UNCHANGED <<db, req, ev>>
    /\ resp' =
         IF cu.status # HTTP_200_OK THEN Fail("get_job_stats", tok, job_id, cu)
         ELSE IF ~OwnedJob(job_id, cu.user) THEN NotOwned("get_job_stats", tok, job_id)
         ELSE [Response("get_job_stats", tok, job_id, HTTP_200_OK, "stats")
                 EXCEPT !.data = <<Cardinality(found), CountStatus(found, "selected"),
                                   CountStatus(found, "rejected"), CountStatus(found, "pending")>>]

FileTypes == {"resume", "report", "json", "package"}

\* generated says whether the report / package generator succeeded
download_application_files(tok, job_id, application_id, file_type, generated) ==
    LET cu == get_current_employer(tok)
        op == "download_application_files"
        found == {a \in AppsOfJob(job_id) : a.id = application_id}
    IN
    /\ req = None /\ resp = NoResp
    /\ UNCHANGED <<db, req, ev>>
    /\ resp' =
         IF cu.status # HTTP_200_OK THEN Fail(op, tok, job_id, cu)
         ELSE IF file_type \notin FileTypes
         THEN Response(op, tok, job_id, HTTP_422_UNPROCESSABLE, "validation error")
         ELSE IF ~OwnedJob(job_id, cu.user) THEN NotOwned(op, tok, job_id)
         ELSE IF found = {}
         THEN Response(op, tok, job_id, HTTP_404_NOT_FOUND, "Application not found")
         ELSE IF (CHOOSE a \in found : TRUE).resume_path \notin DOMAIN files
         THEN Response(op, tok, job_id, HTTP_404_NOT_FOUND, "Resume file not found")
         ELSE IF file_type \in {"report", "package"} /\ ~generated
         THEN Response(op, tok, job_id, HTTP_500_INTERNAL_SERVER_ERROR, "Failed to generate")
         ELSE [Response(op, tok, job_id, HTTP_200_OK, file_type)
                 EXCEPT !.data = <<application_id>>]

Range(f) == {f[i] : i \in DOMAIN f}

\* variant of TooManyIds without the limit
TooManyIds_never(application_ids) == FALSE

\* len(application_ids) > 50
TooManyIds(application_ids) == Len(application_ids) > 50

\* application_ids is a required query parameter: a request without any is
\* refused by the validation of the framework before the handler body runs
bulk_download_applications(tok, job_id, application_ids, generated) ==
    LET cu == get_current_employer(tok)
        op == "bulk_download_applications"
        found == {a \in AppsOfJob(job_id) : a.id \in Range(application_ids)}
    IN
    /\ req = None /\ resp = NoResp
    /\ UNCHANGED <<db, req, ev>>
    /\ resp' =
         [IF cu.status # HTTP_200_OK THEN Fail(op, tok, job_id, cu)
          ELSE IF Len(application_ids) = 0
          THEN Response(op, tok, job_id, HTTP_422_UNPROCESSABLE, "validation error")
          ELSE IF ~OwnedJob(job_id, cu.user) THEN NotOwned(op, tok, job_id)
          ELSE IF Len(application_ids) = 0
          THEN Response(op, tok, job_id, HTTP_400_BAD_REQUEST, "No application IDs provided")
          ELSE IF TooManyIds(application_ids)
          THEN Response(op, tok, job_id, HTTP_400_BAD_REQUEST,
                        "Cannot download more than 50 applications at once")
          ELSE IF Cardinality(found) # Len(application_ids)
          THEN Response(op, tok, job_id, HTTP_404_NOT_FOUND, "Some application IDs not found")
          ELSE IF ~generated
          THEN Response(op, tok, job_id, HTTP_500_INTERNAL_SERVER_ERROR, "Failed to create bulk download")
          ELSE [Response(op, tok, job_id, HTTP_200_OK, "zip")
                  EXCEPT !.data = OrderByIdDesc(found)]
         EXCEPT !.form = application_ids]

\* f"{app.score:.1f}" if app.score else 'N/A': None and 0.0 are both falsy.
\* The cell holds the score in tenths, rounded to the nearest tenth; a score
\* halfway between two tenths goes the way its binary value lies.
ScoreCell(score, half_up) ==
    IF score # None /\ Val(score) # 0
    THEN [text |-> "d.d",
          tenths |-> IF Val(score) % 10 = 5 /\ ~half_up THEN Val(score) \div 10
                     ELSE (Val(score) + 5) \div 10]
    ELSE [text |-> "N/A", tenths |-> 0]

export_applications_csv(tok, job_id, half_up) ==
    LET cu == get_current_employer(tok)
        op == "export_applications_csv"
        ordered == OrderByScore(AppsOfJob(job_id))
        ById(id) == CHOOSE a \in AppsOfJob(job_id) : a.id = id
    IN
    /\ req = None /\ resp = NoResp
    /\ UNCHANGED <<db, req, ev>>
    /\ resp' =
         IF cu.status # HTTP_200_OK THEN Fail(op, tok, job_id, cu)
         ELSE IF ~OwnedJob(job_id, cu.user) THEN NotOwned(op, tok, job_id)
         ELSE IF AppsOfJob(job_id) = {}
         THEN Response(op, tok, job_id, HTTP_404_NOT_FOUND, "No applications found")
         ELSE [Response(op, tok, job_id, HTTP_200_OK, "csv")
                 EXCEPT !.data = ordered,
                        !.rows = [i \in 1 .. Len(ordered) |->
                                     [id |-> ordered[i],
                                      score |-> ScoreCell(ById(ordered[i]).score, half_up),
                                      status |-> ById(ordered[i]).status]]]

----------------------------------------------------------------------------
(* Chat (routers/chat.py, schemas/chat.py) *)

\* ChatMessageCreate: message of 1..1000 characters
ChatMessageCreateValid(message) == message.len >= 1 /\ message.len <= 1000

\* the receiver is looked up only when receiver_id is truthy: a direct message
\* without receiver_id, or with receiver_id 0, goes on to the insert. The
\* insert of receiver_id 0 violates the foreign key to users.id where the
\* database enforces foreign keys (SQLite does so only when told to).
send_message(tok, message, receiver_id, is_global, fk_enforced) ==
    LET cu == get_current_user(tok)
        looked_up == ~is_global /\ receiver_id # None /\ Val(receiver_id) # 0
        fk_error == fk_enforced /\ receiver_id # None /\ Val(receiver_id) \notin UserIds
        sends == /\ cu.status = HTTP_200_OK
                 /\ ChatMessageCreateValid(message)
                 /\ ~(looked_up /\ Val(receiver_id) \notin UserIds)
                 /\ ~fk_error
    IN
    /\ req = None /\ resp = NoResp
    /\ sends => Len(messages) < MaxMsgs
    /\ UNCHANGED <<users, jobs, nextJobId, applications, nextAppId, files, req, ev>>
    /\ IF cu.status # HTTP_200_OK
       THEN /\ resp' = Fail("send_message", tok, NoJob, cu)
            /\ UNCHANGED messages
       ELSE IF ~ChatMessageCreateValid(message)
       THEN /\ resp' = Response("send_message", tok, NoJob, HTTP_422_UNPROCESSABLE, "validation error")
            /\ UNCHANGED messages
       ELSE IF looked_up /\ Val(receiver_id) \notin UserIds
       THEN /\ resp' = Response("send_message", tok, NoJob, HTTP_404_NOT_FOUND, "Receiver not found")
            /\ UNCHANGED messages
       ELSE IF fk_error
       THEN /\ resp' = Response("send_message", tok, NoJob, HTTP_500_INTERNAL_SERVER_ERROR, "Internal Server Error")
            /\ UNCHANGED messages
       ELSE /\ messages' = Append(messages,
                              [id |-> Len(messages) + 1, sender_id |-> cu.user,
                               receiver_id |-> receiver_id, message |-> message,
                               is_global |-> is_global, age |-> 0])
            /\ resp' = [Response("send_message", tok, NoJob, HTTP_201_CREATED, "message")
                          EXCEPT !.data = <<Len(messages) + 1>>]

CHAT_MESSAGE_LIMIT == 100
CHAT_HISTORY_DAYS == 30

Reverse(s) == [i \in 1 .. Len(s) |-> s[Len(s) + 1 - i]]

\* A stored message carries its age in days, now - created_at; the table is
\* in the order of the ids, which is the order of created_at. In
\* .order_by(created_at.desc()).limit(k).all() a negative k is no limit at
\* all on SQLite (the engine of the default DATABASE_URL) and an error on an
\* engine that refuses it.
get_global_messages(tok, limit, negative_is_unlimited) ==
    LET cu == get_current_user(tok)
        op == "get_global_messages"
        IsRecentGlobal(m) == m.is_global /\ m.age <= CHAT_HISTORY_DAYS
        k == Min(limit, CHAT_MESSAGE_LIMIT)
        rows == Reverse(SelectSeq(messages, IsRecentGlobal))
        found == IF k < 0 THEN rows ELSE SubSeq(rows, 1, Min(k, Len(rows)))
        result == Reverse(found)
    IN
    /\ req = None /\ resp = NoResp
    /\ UNCHANGED <<db, req, ev>>
    /\ resp' =
         [IF cu.status # HTTP_200_OK THEN Fail(op, tok, NoJob, cu)
          ELSE IF k < 0 /\ ~negative_is_unlimited
          THEN Response(op, tok, NoJob, HTTP_500_INTERNAL_SERVER_ERROR, "Internal Server Error")
          ELSE [Response(op, tok, NoJob, HTTP_200_OK, "messages")
                  EXCEPT !.data = [i \in 1 .. Len(result) |-> result[i].id]]
         EXCEPT !.form = <<limit>>]

\* variant of Between that matches the caller's own messages only
Between_sentOnly(m, me, them) ==
    m.sender_id = me /\ m.receiver_id = Some(them)

\* (sender_id == me & receiver_id == them) | (sender_id == them & receiver_id == me)
Between(m, me, them) ==
    \/ m.sender_id = me /\ m.receiver_id = Some(them)
    \/ m.sender_id = them /\ m.receiver_id = Some(me)

\* the query of get_direct_messages and the reversal of its rows: the ids of
\* the newest min(limit, 100) direct messages between the two, oldest first
direct_messages(me, them, limit) ==
    LET IsRecentBetween(m) ==
            ~m.is_global /\ m.age <= CHAT_HISTORY_DAYS /\ Between(m, me, them)
        k == Min(limit, CHAT_MESSAGE_LIMIT)
        rows == Reverse(SelectSeq(messages, IsRecentBetween))
        found == IF k < 0 THEN rows ELSE SubSeq(rows, 1, Min(k, Len(rows)))
        result == Reverse(found)
    IN [i \in 1 .. Len(result) |-> result[i].id]

get_direct_messages(tok, user_id, limit, negative_is_unlimited) ==
    LET cu == get_current_user(tok)
        op == "get_direct_messages"
    IN
    /\ req = None /\ resp = NoResp
    /\ UNCHANGED <<db, req, ev>>
    /\ resp' =
         [IF cu.status # HTTP_200_OK THEN Fail(op, tok, NoJob, cu)
          ELSE IF user_id \notin UserIds
          THEN Response(op, tok, NoJob, HTTP_404_NOT_FOUND, "User not found")
          ELSE IF Min(limit, CHAT_MESSAGE_LIMIT) < 0 /\ ~negative_is_unlimited
          THEN Response(op, tok, NoJob, HTTP_500_INTERNAL_SERVER_ERROR, "Internal Server Error")
          ELSE [Response(op, tok, NoJob, HTTP_200_OK, "messages")
                  EXCEPT !.data = direct_messages(cu.user, user_id, limit)]
         EXCEPT !.form = <<user_id, limit>>]

----------------------------------------------------------------------------
(* Profile *)

\* `if name:` / `if phone:`: a query parameter that is absent or empty is falsy
Truthy_given(value) == value # None

Truthy(value) == value # None /\ Val(value).len > 0

\* update_profile: the row is committed before the response is built; the
\* response model UserResponse then wants a name of 2..100 characters
update_profile(tok, name, phone) ==
    LET cu == get_current_user(tok)
        op == "update_profile"
        updated == [users[cu.user] EXCEPT
                       !.name = IF Truthy(name) THEN Val(name) ELSE @,
                       !.phone = IF Truthy(phone) THEN phone ELSE @]
    IN
    /\ req = None /\ resp = NoResp
    /\ UNCHANGED <<jobs, nextJobId, applications, nextAppId, files, messages, req, ev>>
    /\ IF cu.status # HTTP_200_OK
       THEN /\ resp' = [Fail(op, tok, NoJob, cu) EXCEPT !.form = <<name, phone>>]
            /\ UNCHANGED users
       ELSE /\ users' = [users EXCEPT ![cu.user] = updated]
            /\ resp' =
                 [IF updated.name.len >= 2 /\ updated.name.len <= 100
                  THEN Response(op, tok, NoJob, HTTP_200_OK, "user")
                  ELSE Response(op, tok, NoJob, HTTP_500_INTERNAL_SERVER_ERROR,
                                "Internal Server Error")
                 EXCEPT !.form = <<name, phone>>]

----------------------------------------------------------------------------
(* Requests explored *)

Ann == [name |-> Str("Ann", 3), email |-> Email("ann", "x.io"), role |-> "employer"]
Bob == [name |-> Str("Bob", 3), email |-> Email("bob", "x.io"), role |-> "employer"]
Cy == [name |-> Str("Cy", 2), email |-> Email("cy", "x.io"), role |-> "candidate"]
Di == [name |-> Str("Di", 2), email |-> Email("di", "x.io"), role |-> "candidate"]

\* the accounts register in the order of the sequence: the next account of
\* it, or once more an account that registered before
RegisterInputs(accounts) ==
    {accounts[i] : i \in 1 .. Min(Len(users) + 1, Len(accounts))}

Title == Str("Engineer", 8)
Company == Str("Acme", 4)

\* no rules at all, and a rules object that leaves everything at its default
RuleInputs == {None, Some(JobRules(EmptyDict))}

UpdateInputs == {[is_active |-> FALSE], [is_active |-> TRUE]}

JobIdInputs == 1 .. nextJobId

GoodName == Str("Cy Young", 8)
GoodPhone == Str("0123456789", 10)
PdfName == <<"c", "v", ".", "P", "D", "F">>

BlankResume ==
    [text |-> FALSE, phrases |-> {}, skills |-> {}, years |-> 0, level |-> "none",
     field |-> None, grade |-> None, auth |-> FALSE, cos |-> 0]

GoodResume ==
    [text |-> TRUE, phrases |-> {"python"}, skills |-> {"python"}, years |-> 3,
     level |-> "bachelor", field |-> Some("cse"), grade |-> Some(85), auth |-> TRUE,
     cos |-> 100]

\* multipart submissions: name, phone, resume file name, resume content
ApplyInputs ==
    LET good == [name |-> GoodName, phone |-> GoodPhone, filename |-> PdfName,
                 resume |-> GoodResume]
    IN {good,
        [good EXCEPT !.resume = BlankResume],
        [good EXCEPT !.name = Str("C", 1), !.phone = Str("0123456789012345", 16)],
        [good EXCEPT !.phone = Str("", 0)],
        [good EXCEPT !.filename = <<"c", "v", ".", "e", "x", "e">>],
        [good EXCEPT !.filename = <<".", "p", "d", "f">>]}

NoEval == [phase |-> "none"]

Init ==
    /\ users = <<>>
    /\ jobs = <<>>
    /\ nextJobId = 1
    /\ applications = {}
    /\ nextAppId = 1
    /\ files = <<>>
    /\ messages = <<>>
    /\ req = None
    /\ resp = NoResp
    /\ ev = NoEval

\* tokens issued by login to the users of a role
RoleTokens(role) == {Jwt(u) : u \in {v \in UserIds : users[v].role = role}}

\* the job and application flow of one employer and two candidates, every
\* request carrying a token that login issued to a user of the role the
\* endpoint asks for
Next ==
    \/ \E i \in RegisterInputs(<<Ann, Cy, Di>>) : register(i.name, i.email, i.role, PwGood)
    \/ \E tok \in RoleTokens("employer"), rules \in RuleInputs :
          create_job(tok, Title, Company, {}, rules)
    \/ \E tok \in RoleTokens("employer"), j \in JobIdInputs, u \in UpdateInputs :
          update_job(tok, j, u)
    \/ \E tok \in RoleTokens("employer"), j \in JobIdInputs : delete_job(tok, j)
    \/ \E tok \in RoleTokens("candidate"), j \in JobIdInputs, s \in ApplyInputs :
          apply_to_job_begin(tok, j, s.name, s.phone, s.filename, s.resume)
    \/ apply_to_job_screen
    \/ apply_to_job_commit
    \/ \E outcome \in EmailOutcomes : apply_to_job_notify(outcome)
    \/ apply_to_job_return
    \/ \E tok \in RoleTokens("employer"), j \in JobIdInputs : get_job_stats(tok, j)
    \/ send_response

Spec == Init /\ [][Next]_vars

----------------------------------------------------------------------------
(* The role-gated endpoints under every kind of caller: jobs without rules *)
(* and one well-formed submission, every bearer token, every job id.       *)

\* two employers and one candidate
NextOwner ==
    \/ \E i \in RegisterInputs(<<Ann, Cy, Bob>>) : register(i.name, i.email, i.role, PwGood)
    \/ \E tok \in Tokens : create_job(tok, Title, Company, {}, None)
    \/ \E tok \in Tokens, j \in JobIdInputs, u \in UpdateInputs : update_job(tok, j, u)
    \/ \E tok \in Tokens, j \in JobIdInputs : delete_job(tok, j)
    \/ \E tok \in Tokens, j \in JobIdInputs :
          apply_to_job_begin(tok, j, GoodName, GoodPhone, PdfName, GoodResume)
    \/ apply_to_job_screen
    \/ apply_to_job_commit
    \/ apply_to_job_notify(<<"failed", "failed", "failed">>)
    \/ apply_to_job_return
    \/ \E tok \in Tokens, j \in JobIdInputs : get_job_applications(tok, j, None)
    \/ \E tok \in Tokens : get_my_applications(tok)
    \/ \E tok \in Tokens, j \in JobIdInputs : get_job_stats(tok, j)
    \/ \E tok \in Tokens, j \in JobIdInputs, a \in 1 .. nextAppId, generated \in BOOLEAN :
          download_application_files(tok, j, a, "package", generated)
    \/ \E tok \in Tokens, j \in JobIdInputs,
          ids \in {<<>>, <<1>>, <<1, 1>>, <<1, 2>>, [i \in 1 .. 50 |-> i],
                   [i \in 1 .. 51 |-> 1], [i \in 1 .. 51 |-> i]} :
          bulk_download_applications(tok, j, ids, TRUE)
    \/ \E tok \in Tokens, j \in JobIdInputs, half_up \in BOOLEAN :
          export_applications_csv(tok, j, half_up)
    \/ send_response

SpecOwner == Init /\ [][NextOwner]_vars

----------------------------------------------------------------------------
(* Registration on its own: schema-valid requests over a few addresses,    *)
(* some differing only in the case of the local part or of the domain.     *)

AuthEmails ==
    {Email("ann", "x.io"), Email("ann", "X.IO"), Email("Ann", "x.io"),
     Email("bob", "x.io"), Email("cy", "x.io")}

\* registration with a password that passes UserCreate, one of them of 50
\* characters that encode to more than 72 bytes; login with the right
\* password, a wrong one and a long one
NextAuth ==
    \/ \E e \in AuthEmails, pw \in {PwGood, PwWide}, role \in {"employer", "candidate"} :
          register(Str("Ann", 3), e, role, pw)
    \/ \E e \in AuthEmails, pw \in {PwGood, PwShort, PwWide}, backend \in Backends :
          login(e, pw, backend)
    \/ send_response

SpecAuth == Init /\ [][NextAuth]_vars

----------------------------------------------------------------------------
(* evaluate_resume on its own: a resume and a rule set are drawn, then the *)
(* function is applied to them.                                            *)

\* weights that add up to 250 points
HeavyWeights ==
    [skills_all |-> 5000, skills_any |-> 5000, experience |-> 5000,
     similarity |-> 5000, education |-> 5000]

InitEval ==
    LET JuniorResume ==
            [text |-> TRUE, phrases |-> {}, skills |-> {}, years |-> 0, level |-> "none",
             field |-> None, grade |-> None, auth |-> FALSE, cos |-> 0]
        EvalResumes ==
            {GoodResume, [GoodResume EXCEPT !.phrases = {"python", "intern"}],
             JuniorResume, [JuniorResume EXCEPT !.phrases = {"intern"}], BlankResume}
        \* a rules dict with these keys set and every other key absent
        RuleSet(required_all, min_years, forbidden, work_auth, scoring) ==
            ("required_all" :> Some(required_all)) @@ ("min_years" :> min_years) @@
            ("forbidden_keywords" :> Some(forbidden)) @@ ("require_work_auth" :> work_auth) @@
            ("scoring" :> Some(scoring))
        EvalRules ==
            LET EvalScoring ==
                    {[enabled |-> TRUE, threshold |-> 2000], [enabled |-> TRUE, threshold |-> 9500],
                     [enabled |-> TRUE, threshold |-> 5000, weights |-> HeavyWeights],
                     [enabled |-> FALSE]}
            IN {EmptyDict, JobRules(EmptyDict)} \cup
               {RuleSet(ra, my, fk, wa, sc) :
                   ra \in {{}, {"python", "go"}, {"go", "sql", "rust"}}, my \in {0, 5},
                   fk \in {{}, {"intern"}}, wa \in BOOLEAN, sc \in EvalScoring}
        \* candidate skill sets against rule sets that set required_any and
        \* any_min alone
        AnyResumes ==
            {[GoodResume EXCEPT !.phrases = s, !.skills = s] : s \in SUBSET {"python", "sql", "go"}}
        AnyRules ==
            {("required_any" :> Some(ra)) @@ ("any_min" :> am) :
                ra \in {{}, {"python"}, {"python", "sql", "go"}, {"go", "rust"}},
                am \in {-3, 0, 1, 2, 3, 4, 6}}
        \* qualifications against rule sets with education enabled: a minimum
        \* level with or without a grade requirement (or a null grade), a
        \* degree requirement off or on, an experience substitute absent, on,
        \* off or null
        EduResumes ==
            {[GoodResume EXCEPT !.level = l, !.field = f, !.grade = g, !.years = y] :
                l \in {"none", "bachelor", "master"}, f \in {None, Some("cse")},
                g \in {None, Some(50), Some(85), Some(95)}, y \in {0, 3, 5}}
        EduRules ==
            {("education_requirements" :>
                Some([enabled |-> TRUE,
                      minimum_qualification |-> Some([level |-> ml, grade |-> mg]),
                      degree_requirement |-> Some(dr),
                      alternative_paths |-> ap])) :
                ml \in {"12th_diploma", "master"},
                mg \in {Some(EmptyDict), Some([required |-> TRUE, normalized |-> 60]), None},
                dr \in {EmptyDict} \cup
                       {[enabled |-> TRUE, level |-> dl, fields |-> fs, grade |-> dg] :
                           dl \in {"bachelor", "master"},
                           fs \in {{"computer science"}, {"physics"}},
                           dg \in {None, Some([normalized |-> 90])}},
                ap \in {Some(EmptyDict), None} \cup
                       {Some([experience_substitute |->
                                 Some([enabled |-> en, years_required |-> yr])]) :
                           en \in BOOLEAN, yr \in {3, 5}}}
    IN
    /\ users = <<>>
    /\ jobs = <<>>
    /\ nextJobId = 1
    /\ applications = {}
    /\ nextAppId = 1
    /\ files = <<>>
    /\ messages = <<>>
    /\ req = None
    /\ resp = NoResp
    /\ \E pair \in (EvalResumes \X EvalRules) \cup (AnyResumes \X AnyRules)
                      \cup (EduResumes \X EduRules) :
          ev = [phase |-> "input", resume |-> pair[1], rules |-> pair[2]]

Evaluate ==
    /\ ev.phase = "input"
    /\ ev' = [phase |-> "done", resume |-> ev.resume, rules |-> ev.rules,
              result |-> evaluate_resume(ev.resume, ev.rules, {})]
    /\ UNCHANGED <<db, req, resp>>

SpecEval == InitEval /\ [][Evaluate]_vars

----------------------------------------------------------------------------
(* hash_password and verify_password on their own: a password p, a         *)
(* candidate q and the bcrypt backend of the build are drawn, p is hashed  *)
(* and q is verified against the hash.                                     *)

Abcdef == <<Run("a", 1, 1), Run("b", 1, 1), Run("c", 1, 1),
            Run("d", 1, 1), Run("e", 1, 1), Run("f", 1, 1)>>
AbcdefX60 == Abcdef \o <<Run("X", 1, 60)>>
AbcdefY60 == Abcdef \o <<Run("Y", 1, 60)>>
AbcdefX44Y16 == Abcdef \o <<Run("X", 1, 44), Run("Y", 1, 16)>>
InitPassword ==
    LET PasswordInputs ==
            {PwGood, PwShort, PwWide, AbcdefX60, AbcdefY60, AbcdefX44Y16,
             Abcdef \o <<Run("X", 1, 44)>>, Abcdef \o <<Run("X", 1, 43)>>,
             <<Run("emoji", 4, 18)>>, <<Run("emoji", 4, 19)>>,
             <<Run("emoji", 4, 18), Run("z", 1, 1)>>}
    IN
    /\ users = <<>>
    /\ jobs = <<>>
    /\ nextJobId = 1
    /\ applications = {}
    /\ nextAppId = 1
    /\ files = <<>>
    /\ messages = <<>>
    /\ req = None
    /\ resp = NoResp
    /\ \E p \in PasswordInputs, q \in PasswordInputs, b \in Backends :
          ev = [phase |-> "input", p |-> p, q |-> q, backend |-> b,
                hashed |-> None, verified |-> FALSE]

HashPassword ==
    /\ ev.phase = "input"
    /\ ev' = IF hash_password_raises(ev.p)
             THEN [ev EXCEPT !.phase = "raised"]
             ELSE [ev EXCEPT !.phase = "hashed", !.hashed = Some(hash_password(ev.p))]
    /\ UNCHANGED <<db, req, resp>>

VerifyPassword ==
    /\ ev.phase = "hashed"
    /\ ev' = [ev EXCEPT !.phase = "verified",
                        !.verified = verify_password(ev.q, Val(ev.hashed), ev.backend)]
    /\ UNCHANGED <<db, req, resp>>

SpecPassword == InitPassword /\ [][HashPassword \/ VerifyPassword]_vars

----------------------------------------------------------------------------
(* GET /chat/global and GET /chat/direct/{id} on their own: the stored     *)
(* users and messages are drawn, as earlier registrations and sends and    *)
(* the passing of time leave them, then a handler is applied with a limit. *)

InitChatHistory ==
    LET \* global messages of 31, 30 and 29 days ago and of today, then direct ones
        History(n31, n30, n29, n0, nDirect) ==
            LET Sent(first, n, age, is_global) ==
                    [i \in 1 .. n |->
                        [id |-> first + i - 1, sender_id |-> 1,
                         receiver_id |-> IF is_global THEN None ELSE Some(2),
                         message |-> Str("hi", 2), is_global |-> is_global, age |-> age]]
            IN Sent(1, n31, 31, TRUE) \o Sent(n31 + 1, n30, 30, TRUE)
                   \o Sent(n31 + n30 + 1, n29, 29, TRUE)
                   \o Sent(n31 + n30 + n29 + 1, n0, 0, TRUE)
                   \o Sent(n31 + n30 + n29 + n0 + 1, nDirect, 0, FALSE)
        \* direct messages between three users, some older than 30 days
        Direct ==
            {[sender_id |-> 1, receiver_id |-> Some(2), age |-> 0],
             [sender_id |-> 2, receiver_id |-> Some(1), age |-> 0],
             [sender_id |-> 3, receiver_id |-> Some(1), age |-> 0],
             [sender_id |-> 2, receiver_id |-> Some(1), age |-> 31],
             [sender_id |-> 1, receiver_id |-> Some(2), age |-> 30]}
        \* one to three direct messages, the oldest first, after n global ones
        DirectHistory(n, direct) ==
            History(0, 0, n, 0, 0) \o
            [i \in 1 .. Len(direct) |->
                [id |-> n + i, sender_id |-> direct[i].sender_id,
                 receiver_id |-> direct[i].receiver_id, message |-> Str("hi", 2),
                 is_global |-> FALSE, age |-> direct[i].age]]
        Oldest(direct) == \A i \in 1 .. Len(direct) - 1 : direct[i].age >= direct[i + 1].age
    IN
    /\ users = [i \in 1 .. 3 |->
                  LET account == <<Ann, Cy, Bob>>[i]
                  IN [id |-> i, name |-> account.name, email |-> account.email,
                      phone |-> None, role |-> account.role,
                      hashed_password |-> hash_password(PwGood)]]
    /\ jobs = <<>>
    /\ nextJobId = 1
    /\ applications = {}
    /\ nextAppId = 1
    /\ files = <<>>
    /\ \/ \E n31 \in {0, 1}, n30 \in {0, 1}, n29 \in {0, 1}, n0 \in {0, 2, 101},
             nDirect \in {0, 1} :
             messages = History(n31, n30, n29, n0, nDirect)
       \/ \E n \in {0, 1}, direct \in UNION {[1 .. len -> Direct] : len \in 1 .. 3} :
             Oldest(direct) /\ messages = DirectHistory(n, direct)
    /\ req = None
    /\ resp = NoResp
    /\ ev = NoEval

NextChatHistory ==
    \/ \E tok \in Tokens, limit \in {-1, 0, 1, 2, 50, 100, 101, 150},
          negative_is_unlimited \in BOOLEAN :
          get_global_messages(tok, limit, negative_is_unlimited)
    \/ \E tok \in Tokens, user_id \in 0 .. Len(users), limit \in {-1, 1, 2, 50},
          negative_is_unlimited \in BOOLEAN :
          get_direct_messages(tok, user_id, limit, negative_is_unlimited)
    \/ send_response

SpecChatHistory == InitChatHistory /\ [][NextChatHistory]_vars

----------------------------------------------------------------------------
(* Chat: users register and send messages.                                 *)

NextChat ==
    \/ \E i \in RegisterInputs(<<Ann, Cy>>) : register(i.name, i.email, i.role, PwGood)
    \/ \E tok \in Tokens, message \in {Str("hi", 2), Str("", 0)},
          receiver_id \in {None, Some(0), Some(1), Some(2), Some(9)},
          is_global \in BOOLEAN, fk_enforced \in BOOLEAN :
          send_message(tok, message, receiver_id, is_global, fk_enforced)
    \/ \E tok \in Tokens, limit \in {-1, 1, 50} : get_global_messages(tok, limit, TRUE)
    \/ send_response

SpecChat == Init /\ [][NextChat]_vars

----------------------------------------------------------------------------
(* The CSV export over applications of every kind of score: candidates     *)
(* apply with a readable or an unreadable resume to jobs with and without  *)
(* rules, and the owner exports.                                           *)

NextCsv ==
    \/ \E i \in RegisterInputs(<<Ann, Cy, Di>>) : register(i.name, i.email, i.role, PwGood)
    \/ \E tok \in RoleTokens("employer"), rules \in RuleInputs :
          create_job(tok, Title, Company, {}, rules)
    \/ \E tok \in RoleTokens("candidate"), j \in JobIds, resume \in {GoodResume, BlankResume} :
          apply_to_job_begin(tok, j, GoodName, GoodPhone, PdfName, resume)
    \/ apply_to_job_screen
    \/ apply_to_job_commit
    \/ apply_to_job_notify(<<"sent", "sent", "sent">>)
    \/ apply_to_job_return
    \/ \E tok \in RoleTokens("employer"), j \in JobIds, half_up \in BOOLEAN :
          export_applications_csv(tok, j, half_up)
    \/ send_response

SpecCsv == Init /\ [][NextCsv]_vars

----------------------------------------------------------------------------
(* Grade extraction (utils/resume_parser.py extract_grade_from_text)       *)
(*                                                                         *)
(* A text is its sequence of tokens: numbers, in hundredths, and words in  *)
(* the letter case they are written in; white space between tokens is      *)
(* optional in every pattern. A pattern is the sequence of the tokens it   *)
(* asks for, some of them optional, one of them the captured number.       *)

Num(v) == [t |-> "num", v |-> v, w |-> ""]
Word(w) == [t |-> "word", v |-> 0, w |-> w]

WordToLower ==
    ("CGPA" :> "cgpa") @@ ("GPA" :> "gpa") @@ ("Present" :> "present")
        @@ ("Current" :> "current") @@ ("Years" :> "years")

\* normalize_text: lower case, single spaces
normalize_text(text) ==
    [i \in 1 .. Len(text) |->
        IF text[i].t = "word" THEN Word(Get(WordToLower, text[i].w, text[i].w))
        ELSE text[i]]

\* pattern elements: a word out of a set, the captured number, a number
\* whose digits begin as given
W(ws) == [m |-> "word", ws |-> ws, lead |-> 0, opt |-> FALSE, cap |-> FALSE]
Opt(ws) == [m |-> "word", ws |-> ws, lead |-> 0, opt |-> TRUE, cap |-> FALSE]
Captured == [m |-> "num", ws |-> {}, lead |-> 0, opt |-> FALSE, cap |-> TRUE]
Leading(n) == [m |-> "lead", ws |-> {}, lead |-> n, opt |-> FALSE, cap |-> FALSE]

\* the captured number of a match of pat[i..] at toks[j..], as a set
RECURSIVE MatchFrom(_, _, _, _, _)
MatchFrom(pat, i, toks, j, cap) ==
    LET \* the digits of the number begin with those of n: "/ 10" also finds "/ 100"
        BeginsWith(v, n) ==
            \/ v \div 100 = n
            \/ (v \div 100) \div 10 = n
            \/ (v \div 100) \div 100 = n
        ElementMatches(e, tok) ==
            IF e.m = "word" THEN tok.t = "word" /\ tok.w \in e.ws
            ELSE IF e.m = "num" THEN tok.t = "num"
            ELSE tok.t = "num" /\ BeginsWith(tok.v, e.lead)
    IN
    IF i > Len(pat) THEN {cap}
    ELSE LET e == pat[i]
             taken == IF j <= Len(toks) /\ ElementMatches(e, toks[j])
                      THEN MatchFrom(pat, i + 1, toks, j + 1, IF e.cap THEN toks[j].v ELSE cap)
                      ELSE {}
         IN  IF taken # {} THEN taken
             ELSE IF e.opt THEN MatchFrom(pat, i + 1, toks, j, cap)
             ELSE {}

\* re.search: the leftmost match
re_search(pat, toks) ==
    LET starts == {j \in 1 .. Len(toks) : MatchFrom(pat, 1, toks, j, 0) # {}}
    IN IF starts = {} THEN None
       ELSE MatchFrom(pat, 1, toks, CHOOSE j \in starts : \A k \in starts : j <= k, 0)

\* GRADE_PATTERNS, in the order of the dictionary and of its lists
GRADE_PATTERNS ==
    LET Cgpa == {"cgpa", "CGPA"}
        Gpa == {"gpa", "GPA"}
        Sep == {":", "-"}
    IN
    << [type |-> "cgpa_10", pat |-> <<Captured, W(Cgpa)>>],
       [type |-> "cgpa_10", pat |-> <<W({"CGPA"}), Opt(Sep), Captured>>],
       [type |-> "cgpa_10", pat |-> <<W(Cgpa), Opt({"of"}), Captured, W({"/"}), Leading(10)>>],
       [type |-> "cgpa_10", pat |-> <<Captured, W({"/"}), Leading(10), W(Cgpa)>>],
       [type |-> "gpa_4", pat |-> <<Captured, W(Gpa)>>],
       [type |-> "gpa_4", pat |-> <<W({"GPA"}), Opt(Sep), Captured, W({"/"}), Leading(4)>>],
       [type |-> "gpa_4", pat |-> <<Captured, W({"/"}), Leading(4), W(Gpa)>>],
       [type |-> "percentage", pat |-> <<Captured, W({"%"})>>],
       [type |-> "percentage", pat |-> <<Captured, W({"percent", "percentage"})>>],
       [type |-> "percentage", pat |-> <<W({"percentage"}), Opt(Sep), Captured>>],
       [type |-> "percentage", pat |-> <<W({"marks"}), Opt(Sep), Captured, Opt({"%"})>> ] >>

\* GRADE_CONVERSION, to hundredths of a percent
GRADE_CONVERSION(type, value) ==
    IF type = "cgpa_10" THEN value * 10
    ELSE IF type = "gpa_4" THEN (value * 100) \div 4
    ELSE value

\* the first pattern that is found in the text with a value in range
extract_grade_from_text(text) ==
    LET text_normalized == normalize_text(text)
        \* the range each family accepts, in hundredths
        GradeInRange(type, value) ==
            IF type = "cgpa_10" THEN value >= 0 /\ value <= 1000
            ELSE IF type = "gpa_4" THEN value >= 0 /\ value <= 400
            ELSE value >= 0 /\ value <= 10000
        Found(k) == re_search(GRADE_PATTERNS[k].pat, text_normalized)
        hits == {k \in DOMAIN GRADE_PATTERNS :
                    Found(k) # None /\ GradeInRange(GRADE_PATTERNS[k].type, Val(Found(k)))}
    IN IF hits = {} THEN None
       ELSE LET k == CHOOSE h \in hits : \A g \in hits : h <= g
            IN Some([type |-> GRADE_PATTERNS[k].type,
                     raw_value |-> Val(Found(k)),
                     normalized_percentage |->
                         GRADE_CONVERSION(GRADE_PATTERNS[k].type, Val(Found(k)))])

(* extract_grade_from_text on its own: a text is drawn, then the function  *)
(* is applied to it.                                                       *)

MaxGradeTokens == 3

InitGrade ==
    LET GradeTexts ==
            LET GradeTokens ==
                    {Num(850), Num(360), Num(7200), Num(1100), Num(1000), Num(400),
                     Word("CGPA"), Word("cgpa"), Word("GPA"), Word("%"), Word("/"), Word(":"),
                     Word("marks")}
            IN UNION {[1 .. n -> GradeTokens] : n \in 0 .. MaxGradeTokens}
                   \cup {<<Word("CGPA"), Word("of"), Num(850), Word("/"), Num(1000)>>,
                         <<Num(360), Word("/"), Num(400), Word("GPA")>>,
                         <<Word("CGPA"), Num(1100), Word("/"), Num(1000)>>}
    IN
    /\ users = <<>>
    /\ jobs = <<>>
    /\ nextJobId = 1
    /\ applications = {}
    /\ nextAppId = 1
    /\ files = <<>>
    /\ messages = <<>>
    /\ req = None
    /\ resp = NoResp
    /\ \E text \in GradeTexts : ev = [phase |-> "input", text |-> text, grade |-> None]

ExtractGrade ==
    /\ ev.phase = "input"
    /\ ev' = [ev EXCEPT !.phase = "done", !.grade = extract_grade_from_text(ev.text)]
    /\ UNCHANGED <<db, req, resp>>

SpecGrade == InitGrade /\ [][ExtractGrade]_vars

----------------------------------------------------------------------------
(* Experience estimation (utils/resume_parser.py)                          *)
(* estimate_years_of_experience over a text of tokens; a number token is   *)
(* here the integer its digits spell, of at most four digits.              *)

IsYear(tok) == tok.t = "num" /\ tok.v >= 1900 /\ tok.v <= 2099
IsWordIn(tok, ws) == tok.t = "word" /\ Get(WordToLower, tok.w, tok.w) \in ws

\* YEARS_PATTERN.findall: one or two digits, an optional "+", then the word;
\* of a longer number the last two digits are the ones that match
RECURSIVE YEARS_PATTERN_findall(_, _)
YEARS_PATTERN_findall(toks, j) ==
    LET YearsWords == {"years", "year", "yrs", "yr"} IN
    IF j > Len(toks) THEN <<>>
    ELSE IF toks[j].t = "num" /\ j + 1 <= Len(toks) /\ IsWordIn(toks[j + 1], YearsWords)
    THEN <<toks[j].v % 100>> \o YEARS_PATTERN_findall(toks, j + 2)
    ELSE IF /\ toks[j].t = "num" /\ j + 2 <= Len(toks)
            /\ IsWordIn(toks[j + 1], {"+"}) /\ IsWordIn(toks[j + 2], YearsWords)
    THEN <<toks[j].v % 100>> \o YEARS_PATTERN_findall(toks, j + 3)
    ELSE YEARS_PATTERN_findall(toks, j + 1)

\* DATE_RANGE_PATTERN.findall: a year, a dash, then a year or present/current
RECURSIVE DATE_RANGE_PATTERN_findall(_, _)
DATE_RANGE_PATTERN_findall(toks, j) ==
    LET Dashes == {"-", "en-dash", "em-dash"} IN
    IF j + 2 > Len(toks) THEN <<>>
    ELSE IF /\ IsYear(toks[j]) /\ IsWordIn(toks[j + 1], Dashes)
            /\ (IsYear(toks[j + 2]) \/ IsWordIn(toks[j + 2], {"present", "current"}))
    THEN <<[start |-> toks[j], end |-> toks[j + 2]]>>
             \o DATE_RANGE_PATTERN_findall(toks, j + 3)
    ELSE DATE_RANGE_PATTERN_findall(toks, j + 1)

\* end_year - start_year of one match
RangeYears(match, current_year) ==
    (IF match.end.t = "word" THEN current_year ELSE match.end.v) - match.start.v

RECURSIVE MaxOver(_, _)
MaxOver(values, start) ==
    IF values = <<>> THEN start ELSE MaxOver(Tail(values), Max(start, Head(values)))

RECURSIVE SumYears(_, _)
SumYears(date_matches, current_year) ==
    IF date_matches = <<>> THEN 0
    ELSE RangeYears(Head(date_matches), current_year)
             + SumYears(Tail(date_matches), current_year)

\* variant of total_experience that leaves the sum out
total_experience_none(date_matches, current_year) == 0

\* total_experience += (end_year - start_year), over all matches
total_experience(date_matches, current_year) == SumYears(date_matches, current_year)

estimate_years_of_experience(text, current_year) ==
    LET matches == YEARS_PATTERN_findall(text, 1)
        max_years_explicit == MaxOver(matches, 0)
        date_matches == DATE_RANGE_PATTERN_findall(text, 1)
        max_years_dates ==
            MaxOver([i \in 1 .. Len(date_matches) |-> RangeYears(date_matches[i], current_year)], 0)
        total_years == Max(max_years_explicit, max_years_dates)
    IN IF date_matches # <<>>
       THEN Max(total_years, total_experience(date_matches, current_year))
       ELSE total_years

(* estimate_years_of_experience on its own: a text and the year of the run *)
(* are drawn, then the function is applied.                                *)

MaxExperienceTokens == 3

InitExperience ==
    LET ExperienceTexts ==
            LET ExperienceTokens ==
                    {Num(3), Num(12), Num(2015), Num(2018), Num(2022), Num(2030),
                     Word("-"), Word("years"), Word("+"), Word("present"), Word("Current")}
            IN UNION {[1 .. n -> ExperienceTokens] : n \in 0 .. MaxExperienceTokens}
                   \cup {<<Num(3), Word("years"), Num(2019), Word("-"), Num(2021)>>,
                         <<Num(2015), Word("-"), Num(2018), Num(2019), Word("-"), Num(2022)>>,
                         <<Num(2015), Word("-"), Num(2018), Word("-"), Num(2022)>>,
                         <<Num(2022), Word("-"), Num(2018), Num(2015), Word("-"), Num(2016)>>,
                         <<Num(2015), Word("-"), Num(2018), Num(2022), Word("-"), Num(2021)>>,
                         <<Num(2018), Word("-"), Word("present"), Num(12), Word("+"), Word("yrs")>>}
    IN
    /\ users = <<>>
    /\ jobs = <<>>
    /\ nextJobId = 1
    /\ applications = {}
    /\ nextAppId = 1
    /\ files = <<>>
    /\ messages = <<>>
    /\ req = None
    /\ resp = NoResp
    /\ \E text \in ExperienceTexts, y \in {2026, 2027} :
          ev = [phase |-> "input", text |-> text, current_year |-> y, years |-> 0]

EstimateYears ==
    /\ ev.phase = "input"
    /\ ev' = [ev EXCEPT !.phase = "done",
                        !.years = estimate_years_of_experience(ev.text, ev.current_year)]
    /\ UNCHANGED <<db, req, resp>>

SpecExperience == InitExperience /\ [][EstimateYears]_vars

----------------------------------------------------------------------------
(* The profile endpoint among registrations and job requests: every        *)
(* bearer token, name and phone absent, empty, one character long or       *)
(* well-formed.                                                             *)

NextProfile ==
    \/ \E i \in RegisterInputs(<<Ann, Cy, Bob>>) : register(i.name, i.email, i.role, PwGood)
    \/ \E tok \in Tokens,
          name \in {None, Some(Str("", 0)), Some(Str("Z", 1)), Some(Str("Zed", 3))},
          phone \in {None, Some(Str("", 0)), Some(GoodPhone)} :
          update_profile(tok, name, phone)
    \/ \E tok \in Tokens : create_job(tok, Title, Company, {}, None)
    \/ \E tok \in Tokens, j \in JobIdInputs : delete_job(tok, j)
    \/ send_response

SpecProfile == Init /\ [][NextProfile]_vars

----------------------------------------------------------------------------
(* Creating and editing jobs: titles and companies that are well-formed,   *)
(* empty, longer than 200 characters or null, from two employers.          *)

NextJobs ==
    \/ \E i \in RegisterInputs(<<Ann, Bob>>) : register(i.name, i.email, i.role, PwGood)
    \/ \E tok \in RoleTokens("employer"),
          title \in {Title, Str("", 0), Str("T201", 201)}, company \in {Company, Str("", 0)} :
          create_job(tok, title, company, {}, None)
    \/ \E tok \in RoleTokens("employer"), j \in JobIdInputs,
          u \in {[title |-> Some(Str("Lead", 4))], [title |-> Some(Str("", 0))],
                 [title |-> None], [title |-> Some(Str("T201", 201))],
                 [company |-> Some(Str("", 0))], [company |-> None],
                 [title |-> Some(Str("Lead", 4)), company |-> Some(Str("C201", 201))],
                 [is_active |-> FALSE], <<>>} :
          update_job(tok, j, u)
    \/ send_response

SpecJobs == Init /\ [][NextJobs]_vars

----------------------------------------------------------------------------
(* Two apply requests in flight at once, each in a worker process of its   *)
(* own with a session of its own: req is the request of the process that   *)
(* runs, ev holds the request of the process that waits. A process runs    *)
(* from one step of apply_to_job to the next; both see the committed rows. *)

\* the operating system lets the other worker process run
switch_worker ==
    /\ ev.phase \in {"none", "waiting"}
    /\ resp = NoResp
    /\ req' = IF ev.phase = "waiting" THEN ev.req ELSE None
    /\ ev' = [phase |-> "waiting", req |-> req]
    /\ UNCHANGED <<db, resp>>

NextWorkers ==
    \/ \E i \in RegisterInputs(<<Ann, Cy>>) : register(i.name, i.email, i.role, PwGood)
    \/ \E tok \in RoleTokens("employer") : create_job(tok, Title, Company, {}, None)
    \/ \E tok \in RoleTokens("candidate"), j \in JobIdInputs :
          apply_to_job_begin(tok, j, GoodName, GoodPhone, PdfName, GoodResume)
    \/ apply_to_job_screen
    \/ apply_to_job_commit
    \/ apply_to_job_notify(<<"sent", "sent", "sent">>)
    \/ apply_to_job_return
    \/ switch_worker
    \/ send_response

SpecWorkers == Init /\ [][NextWorkers]_vars

----------------------------------------------------------------------------
(* Properties *)

C2_ForeignEmployerNotFound ==
    [][(/\ req = None /\ req' = None
        /\ resp'.op \in {"update_job", "delete_job", "get_job_applications",
                         "get_job_stats", "download_application_files",
                         "bulk_download_applications", "export_applications_csv"}
        /\ resp'.tok.kind = "jwt"
        /\ resp'.tok.sub \in UserIds
        /\ users[resp'.tok.sub].role = "employer"
        /\ resp'.job \in JobIds
        /\ jobs[resp'.job].employer_id # resp'.tok.sub)
       => /\ resp'.status = HTTP_404_NOT_FOUND
          /\ resp'.data = <<>>
          /\ jobs' = jobs
          /\ applications' = applications]_vars

\* C3: after the owner deletes job J no Application row with job_id = J
\* remains, and a later download, list or bulk download scoped to J by an
\* employer returns 404.
C3_DeletedJobGone ==
    /\ [](\A a \in applications : a.job_id \in JobIds)
    /\ [][(/\ req = None /\ req' = None
           /\ resp'.op \in {"download_application_files", "get_job_applications",
                            "bulk_download_applications"}
           /\ resp'.tok.kind = "jwt"
           /\ resp'.tok.sub \in UserIds
           /\ users[resp'.tok.sub].role = "employer"
           /\ resp'.job < nextJobId
           /\ resp'.job \notin JobIds)
          => resp'.status = HTTP_404_NOT_FOUND]_vars

\* C4: no two stored users share an email; a registration with an email that
\* no stored user has succeeds with 201 and stores a user, and a registration
\* with exactly the email of a stored user fails with 400 and stores nothing.
C4_RegisterOnce ==
    /\ [](\A i \in UserIds, j \in UserIds : users[i].email = users[j].email => i = j)
    /\ [][(req = None /\ req' = None /\ resp'.op = "register")
          => IF \E i \in UserIds : users[i].email = resp'.email
             THEN resp'.status = HTTP_400_BAD_REQUEST /\ users' = users
             ELSE resp'.status = HTTP_201_CREATED /\ Len(users') = Len(users) + 1]_vars

\* C5: on an employer-only or candidate-only endpoint a missing, invalid or
\* unresolvable token gets 401 and an authenticated user of the other role
\* gets 403; in both cases no user, job, application, message or file changes
\* and no request is left in progress.
C5_AuthBeforeHandler ==
    [][(/\ req = None /\ req' = None
        /\ resp'.op \in {"create_job", "update_job", "delete_job",
                         "get_job_applications", "get_job_stats",
                         "download_application_files", "bulk_download_applications",
                         "export_applications_csv", "apply_to_job",
                         "get_my_applications"})
       => LET tok == resp'.tok
              resolves == tok.kind = "jwt" /\ tok.sub \in UserIds
              required == IF resp'.op \in {"apply_to_job", "get_my_applications"}
                          THEN "candidate" ELSE "employer"
          IN /\ ~resolves =>
                   /\ resp'.status = HTTP_401_UNAUTHORIZED
                   /\ resp'.data = <<>>
                   /\ UNCHANGED db
             /\ (resolves /\ users[tok.sub].role # required) =>
                   /\ resp'.status = HTTP_403_FORBIDDEN
                   /\ resp'.data = <<>>
                   /\ UNCHANGED db]_vars

\* C5 witness: a candidate has just been refused on an employer-only
\* endpoint that names an existing job with applications
C5_CandidateRefused ==
    /\ resp.status = HTTP_403_FORBIDDEN
    /\ resp.op \in {"update_job", "delete_job", "get_job_applications"}
    /\ resp.tok.kind = "jwt" /\ resp.tok.sub \in UserIds
    /\ users[resp.tok.sub].role = "candidate"
    /\ resp.job \in JobIds
    /\ AppsOfJob(resp.job) # {}

\* C6: every Application that apply_to_job creates has status selected when
\* evaluate_resume returned "selected", rejected when it returned any other
\* decision, and pending exactly when evaluate_resume raised; a pending one
\* has no score and an explanation with the error message and the note
\* "Manual review required"; and the request is answered 201 with that row.
C6_StatusFromScreening ==
    [][/\ \A a \in applications' \ applications :
             LET job == jobs[a.job_id]
                 rules == IF job.rules = None THEN EmptyDict ELSE Val(job.rules)
                 e == evaluate_resume(files[a.resume_path], rules, job.description)
             IN /\ (a.status = "pending") <=> e.raised
                /\ ~e.raised =>
                      /\ (a.status = "selected") <=> (e.decision = "selected")
                      /\ (a.status = "rejected") <=> (e.decision # "selected")
                      /\ a.score = e.score
                /\ e.raised =>
                      /\ a.score = None
                      /\ a.explanation.error = e.error
                      /\ a.explanation.note = "Manual review required"
       /\ (req # None /\ req' = None) =>
             /\ resp'.status = HTTP_201_CREATED
             /\ \E a \in applications' :
                   /\ a.id = Val(req).application_id
                   /\ resp'.data = <<a.id>>
                   /\ resp'.body = a.status]_vars

\* C6 witness: an application whose screening raised has been stored as
\* pending and its request answered with 201
C6_PendingCreated ==
    /\ resp.op = "apply_to_job"
    /\ resp.status = HTTP_201_CREATED
    /\ \E a \in applications :
          /\ resp.data = <<a.id>>
          /\ a.status = "pending"
          /\ a.score = None
          /\ a.explanation.note = "Manual review required"

\* C7: in a successful apply the resume file is saved, then screening runs,
\* then the Application row is committed, then the emails are attempted;
\* whatever the email steps do, the committed row stays as it is and the
\* request is answered 201.
C7_ApplyOrder ==
    /\ [](req # None =>
            LET q == Val(req)
                rows == {a \in applications :
                            a.job_id = q.job_id /\ a.candidate_id = q.user}
            IN /\ q.resume_path \in DOMAIN files
               /\ q.pc = "saved" =>
                     q.screening = NoScreening /\ rows = {} /\ q.emails = <<>>
               /\ q.pc = "screened" =>
                     q.screening # NoScreening /\ rows = {} /\ q.emails = <<>>
               /\ q.pc = "committed" =>
                     /\ q.emails = <<>>
                     /\ \E a \in rows : a.id = q.application_id
                                        /\ a.status = q.screening.status
               /\ q.pc = "notified" =>
                     /\ q.emails # <<>>
                     /\ \E a \in rows : a.id = q.application_id
                                        /\ a.status = q.screening.status)
    /\ [][(req # None /\ Val(req).pc \in {"committed", "notified"})
          => /\ applications' = applications
             /\ req' = None =>
                   /\ resp'.status = HTTP_201_CREATED
                   /\ resp'.data = <<Val(req).application_id>>]_vars

\* C7 witness: an email step raised after the commit, the row is in place
C7_EmailFailedAfterCommit ==
    /\ req # None
    /\ Val(req).pc = "notified"
    /\ \E i \in 1 .. Len(Val(req).emails) : Val(req).emails[i] = "raised"
    /\ \E a \in applications : a.id = Val(req).application_id

\* C8: an apply by an authenticated candidate with name and phone present
\* fails with 404 when the job does not exist or is inactive, else with 400
\* when the caller already applied, else with 400 when the resume's extension
\* is not allowed; a failing apply writes no file and creates no row, and an
\* apply that goes on to save the file is in none of these cases.
C8_ApplyFailures ==
    [][/\ (/\ req = None /\ req' = None
           /\ resp'.op = "apply_to_job"
           /\ get_current_candidate(resp'.tok).status = HTTP_200_OK
           /\ resp'.form[1] > 0 /\ resp'.form[2] > 0)
          => LET j == resp'.job
                 active == j \in DOMAIN jobs /\ jobs[j].is_active
                 applied == \E a \in applications :
                               a.job_id = j /\ a.candidate_id = resp'.tok.sub
                 allowed == file_extension(resp'.file) \in allowed_extensions_list
             IN /\ ~active =>
                      /\ resp'.status = HTTP_404_NOT_FOUND
                      /\ resp'.body = "Job not found or inactive"
                /\ (active /\ applied) =>
                      /\ resp'.status = HTTP_400_BAD_REQUEST
                      /\ resp'.body = "You have already applied to this job"
                /\ (active /\ ~applied /\ ~allowed) =>
                      /\ resp'.status = HTTP_400_BAD_REQUEST
                      /\ resp'.body = "File type not allowed"
                /\ ~active \/ applied \/ ~allowed
                /\ files' = files
                /\ applications' = applications
                /\ nextAppId' = nextAppId
       /\ (req = None /\ req' # None)
          => LET q == Val(req')
             IN /\ q.job_id \in DOMAIN jobs /\ jobs[q.job_id].is_active
                /\ ~\E a \in applications :
                       a.job_id = q.job_id /\ a.candidate_id = q.user
                /\ file_extension(q.resume_path.filename) \in allowed_extensions_list]_vars

\* C8 witness: an apply to a job that a prior update deactivated has just
\* been answered with 404
C8_DeactivatedJobRefused ==
    /\ resp.op = "apply_to_job"
    /\ resp.status = HTTP_404_NOT_FOUND
    /\ resp.job \in JobIds
    /\ ~jobs[resp.job].is_active

\* C9: every stored Application has a name of 2 to 100 characters and a
\* phone of 10 to 15 characters.
C9_StoredFieldsValid ==
    \A a \in applications :
        /\ a.name.len >= 2 /\ a.name.len <= 100
        /\ a.phone.len >= 10 /\ a.phone.len <= 15

\* C10: for a resume with extractable text, whenever evaluate_resume returns,
\* its decision is "selected" iff no forbidden keyword occurs in the resume
\* and -- with scoring enabled -- the score reaches the threshold or at least
\* 4 of the six optional checks pass, or -- with scoring disabled -- at least
\* 4 of the six optional checks pass; otherwise it is "rejected".
C10_Decision ==
    (ev.phase = "done" /\ ev.resume.text /\ ~ev.result.raised) =>
        LET res == ev.result
            forbidden == Val(Get(ev.rules, "forbidden_keywords", Some({})))
            none_found == \A kw \in forbidden : ~Contains(ev.resume, kw)
            optional == Cardinality({k \in OptionalGates : res.checks[k]})
        IN /\ res.decision \in {"selected", "rejected"}
           /\ (res.decision = "selected") <=>
                 /\ none_found
                 /\ IF res.scoring_enabled
                    THEN Val(res.score) >= res.score_threshold \/ optional >= 4
                    ELSE optional >= 4

\* C10 witness: a resume that contains a forbidden keyword was rejected
\* although its score reaches the threshold and four optional checks pass
C10_ForbiddenRejected ==
    /\ ev.phase = "done"
    /\ ev.resume.text
    /\ ~ev.result.raised
    /\ "intern" \in ev.resume.phrases
    /\ "intern" \in Val(Get(ev.rules, "forbidden_keywords", Some({})))
    /\ ev.result.scoring_enabled
    /\ Val(ev.result.score) >= ev.result.score_threshold
    /\ Cardinality({k \in OptionalGates : ev.result.checks[k]}) >= 4
    /\ ev.result.decision = "rejected"

\* C11: whenever evaluate_resume returns with scoring enabled, whatever the
\* weights, ratios and thresholds, its score is present and at most 100.00.
C11_ScoreAtMost100 ==
    (ev.phase = "done" /\ ~ev.result.raised /\ ev.result.scoring_enabled) =>
        /\ ev.result.score # None
        /\ Val(ev.result.score) <= 10000

\* C11 witness: with weights that add up to 250 points and every ratio at 1
\* the returned score is exactly 100.00
C11_CapReached ==
    /\ ev.phase = "done"
    /\ ~ev.result.raised
    /\ ev.result.scoring_enabled
    /\ Get(Val(Get(ev.rules, "scoring", Some(EmptyDict))), "weights", EmptyDict) = HeavyWeights
    /\ ev.resume = GoodResume
    /\ Val(Get(ev.rules, "required_all", Some({}))) = {}
    /\ Get(ev.rules, "min_years", 0) = 0
    /\ ev.result.score = Some(10000)

\* C12: for a password p that hash_password accepts and a candidate q,
\* verify_password(q, hash_password(p)) is true exactly when the first 50
\* characters of q are the first 50 characters of p.
C12_VerifyIffFirst50 ==
    ev.phase = "verified" =>
        (ev.verified <=> Slice(ev.q, PASSWORD_TRUNCATE) = Slice(ev.p, PASSWORD_TRUNCATE))

\* C13 (as stated): "abcdef" followed by 60 "X" and "abcdef" followed by 60
\* "Y" verify against the same hash: either one verifies against the hash of
\* the other.
C13_XYVerifyEachOther ==
    (ev.phase = "verified" /\ ev.p \in {AbcdefX60, AbcdefY60} /\ ev.q \in {AbcdefX60, AbcdefY60})
        => ev.verified

\* C13: "abcdef" followed by 60 "X" and "abcdef" followed by 60 "Y" differ
\* from the seventh character on and do not verify against each other's hash;
\* a candidate that has the first 50 characters of a hashed password, as
\* "abcdef" + 44 "X" + 16 "Y" has those of "abcdef" + 60 "X", verifies against
\* its hash.
C13_SameFirst50Verify ==
    ev.phase = "verified" =>
        /\ Slice(ev.q, PASSWORD_TRUNCATE) = Slice(ev.p, PASSWORD_TRUNCATE) => ev.verified
        /\ {ev.p, ev.q} = {AbcdefX60, AbcdefY60} => ~ev.verified

\* C13 witness: "abcdef" + 44 "X" + 16 "Y" has verified against the hash of
\* "abcdef" + 60 "X"
C13_TailIgnored ==
    /\ ev.phase = "verified"
    /\ ev.p = AbcdefX60 /\ ev.q = AbcdefX44Y16
    /\ CharLen(ev.p) = 66 /\ CharLen(ev.q) = 66
    /\ ev.verified

C15_GlobalHistory ==
    [][(/\ req = None /\ req' = None
        /\ resp'.op = "get_global_messages"
        /\ resp'.tok.kind = "jwt" /\ resp'.tok.sub \in UserIds)
       => LET limit == resp'.form[1]
              ids == resp'.data
              eligible == {i \in DOMAIN messages :
                              messages[i].is_global /\ messages[i].age <= 30}
              wanted == IF limit < 0 THEN 0
                        ELSE IF limit < 100 THEN limit ELSE 100
              n == IF wanted < Cardinality(eligible) THEN wanted ELSE Cardinality(eligible)
          IN  /\ resp'.status = HTTP_200_OK
              /\ \A j \in DOMAIN ids : \E i \in eligible : messages[i].id = ids[j]
              /\ Len(ids) = n
              /\ Len(ids) <= 100
              /\ \A j \in DOMAIN ids, k \in DOMAIN ids : j < k => ids[j] < ids[k]
              /\ \A i \in eligible :
                    (\A j \in DOMAIN ids : ids[j] # messages[i].id)
                        => \A j \in DOMAIN ids : messages[i].id < ids[j]]_vars

\* C16: every stored message that is not global has a receiver_id that is the
\* id of a stored user, and a send of a direct message whose receiver_id is
\* not the id of a stored user is answered 404 and stores nothing.
C16_DirectHasReceiver ==
    /\ [](\A i \in DOMAIN messages :
            ~messages[i].is_global
                => /\ messages[i].receiver_id # None
                   /\ Val(messages[i].receiver_id) \in UserIds)
    /\ [][(/\ req = None /\ req' = None
           /\ resp'.op = "send_message"
           /\ resp'.status = HTTP_404_NOT_FOUND)
          => messages' = messages]_vars

\* C17: a login with an email no user has and a login with the email of a
\* user and a password that does not verify get the same answer: 401, the
\* same detail, the same headers, and no token.
C17_LoginRefusalsAlike ==
    [][(/\ req = None /\ req' = None
        /\ resp'.op = "login"
        /\ LET e == [local |-> resp'.email.local,
                     domain |-> IF resp'.email.domain = "X.IO" THEN "x.io"
                                ELSE resp'.email.domain]
           IN  \A i \in UserIds :
                  users[i].email = e
                      => \A b \in Backends :
                            ~verify_password(resp'.secret, users[i].hashed_password, b))
       => /\ resp'.status = HTTP_401_UNAUTHORIZED
          /\ resp'.body = "Invalid email or password"
          /\ resp'.headers = {<<"WWW-Authenticate", "Bearer">>}
          /\ resp'.access_token = NoToken
          /\ resp'.data = <<>>]_vars

\* C17 witness: a registered user was refused for a wrong password while
\* another email is not registered at all
C17_WrongPasswordRefused ==
    /\ resp.op = "login"
    /\ resp.status = HTTP_401_UNAUTHORIZED
    /\ resp.secret = PwShort
    /\ \E i \in UserIds : users[i].email = resp.email
    /\ \E e \in AuthEmails : \A i \in UserIds : users[i].email # NormalizeEmail(e)

\* C18: in the CSV export of the owner the Score cell of a row is the score
\* with one decimal whenever the application has a score, 0.0 included, and
\* "N/A" only when it has none; the rows come by descending score, those
\* without score last; a job without applications gets 404.
C18_CsvScoreColumn ==
    [][(/\ req = None /\ req' = None
        /\ resp'.op = "export_applications_csv"
        /\ resp'.tok.kind = "jwt"
        /\ resp'.tok.sub \in UserIds
        /\ users[resp'.tok.sub].role = "employer"
        /\ resp'.job \in JobIds
        /\ jobs[resp'.job].employer_id = resp'.tok.sub)
       => LET apps == {a \in applications : a.job_id = resp'.job}
              rows == resp'.rows
              App(id) == CHOOSE a \in apps : a.id = id
          IN  IF apps = {} THEN resp'.status = HTTP_404_NOT_FOUND
              ELSE /\ resp'.status = HTTP_200_OK
                   /\ {rows[i].id : i \in DOMAIN rows} = {a.id : a \in apps}
                   /\ Len(rows) = Cardinality(apps)
                   /\ \A i \in DOMAIN rows :
                         IF App(rows[i].id).score = None
                         THEN rows[i].score.text = "N/A"
                         ELSE /\ rows[i].score.text = "d.d"
                              /\ 10 * rows[i].score.tenths - Val(App(rows[i].id).score) \in -5 .. 5
                   /\ \A i \in DOMAIN rows, j \in DOMAIN rows :
                         i < j =>
                            \/ App(rows[j].id).score = None
                            \/ /\ App(rows[i].id).score # None
                               /\ Val(App(rows[i].id).score) >= Val(App(rows[j].id).score)]_vars

\* C19: an extracted grade is a percentage between 0 and 100; "CGPA 8.5"
\* gives 85.0, "3.6 GPA" gives 90.0, "72%" gives 72.0; a CGPA of 11 is not
\* taken as a CGPA, and a text that holds nothing else gives no grade.
C19_GradeNormalized ==
    ev.phase = "done" =>
        /\ ev.grade # None
              => /\ Val(ev.grade).normalized_percentage >= 0
                 /\ Val(ev.grade).normalized_percentage <= 10000
                 /\ Val(ev.grade).type = "cgpa_10" => Val(ev.grade).raw_value <= 1000
        /\ ev.text = <<Word("CGPA"), Num(850)>>
              => ev.grade # None /\ Val(ev.grade).normalized_percentage = 8500
        /\ ev.text = <<Num(360), Word("GPA")>>
              => ev.grade # None /\ Val(ev.grade).normalized_percentage = 9000
        /\ ev.text = <<Num(7200), Word("%")>>
              => ev.grade # None /\ Val(ev.grade).normalized_percentage = 7200
        /\ ev.text \in {<<Word("CGPA"), Num(1100)>>, <<Num(1100), Word("CGPA")>>}
              => ev.grade = None

\* C20: the estimate is the largest of the greatest "N years" mention (0 when
\* there is none), the longest single date range and the sum of all date
\* ranges, an end of "present" or "current" standing for the current year;
\* "2018 - 2022" gives 4, "2015 - present" gives the current year minus 2015,
\* and no text gives a negative estimate.
C20_MaxOfMentionsAndRanges ==
    ev.phase = "done" =>
        LET mentions == YEARS_PATTERN_findall(ev.text, 1)
            ranges == DATE_RANGE_PATTERN_findall(ev.text, 1)
            Years(r) == (IF r.end.t = "word" THEN ev.current_year ELSE r.end.v) - r.start.v
            RECURSIVE SumOf(_)
            SumOf(rs) == IF rs = <<>> THEN 0 ELSE Years(Head(rs)) + SumOf(Tail(rs))
            candidates == {mentions[i] : i \in DOMAIN mentions}
                              \cup {Years(ranges[i]) : i \in DOMAIN ranges}
                              \cup {SumOf(ranges), 0}
        IN  /\ \A c \in candidates : ev.years >= c
            /\ ev.years \in candidates
            /\ ev.years >= 0
            /\ ev.text = <<Num(2018), Word("-"), Num(2022)>> => ev.years = 4
            /\ ev.text = <<Num(2015), Word("-"), Word("present")>>
                  => ev.years = ev.current_year - 2015

\* C20 witness: of two date ranges of three years each, neither of which
\* alone is the longest mention, the sum of six years was returned
C20_SumReturned ==
    /\ ev.phase = "done"
    /\ ev.text = <<Num(2015), Word("-"), Num(2018), Num(2019), Word("-"), Num(2022)>>
    /\ ev.years = 6
\* C21: PUT /auth/me changes at most the caller's name and phone, a name or
\* phone that is absent or empty leaves that field as it was, the caller's
\* id, email, role and password hash and every other user's record stay as
\* they were, a refused request changes no user; and no step of any
\* operation changes the role of a stored user.
C21_ProfileFrame ==
    [][/\ \A i \in UserIds : i \in DOMAIN users' /\ users'[i].role = users[i].role
       /\ (resp = NoResp /\ resp'.op = "update_profile") =>
            LET name == resp'.form[1]
                phone == resp'.form[2]
                c == IF resp'.tok.kind = "jwt" THEN resp'.tok.sub ELSE 0
            IN /\ Len(users') = Len(users)
               /\ \A i \in UserIds : i # c => users'[i] = users[i]
               /\ c \in UserIds =>
                    /\ users'[c].id = users[c].id
                    /\ users'[c].email = users[c].email
                    /\ users'[c].role = users[c].role
                    /\ users'[c].hashed_password = users[c].hashed_password
                    /\ (name = None \/ Val(name).len = 0) => users'[c].name = users[c].name
                    /\ (name # None /\ Val(name).len > 0) => users'[c].name = Val(name)
                    /\ (phone = None \/ Val(phone).len = 0) => users'[c].phone = users[c].phone
                    /\ (phone # None /\ Val(phone).len > 0) => users'[c].phone = phone
               /\ resp'.status = HTTP_401_UNAUTHORIZED => users' = users]_vars

\* C21 witness: the second user has renamed themself with an empty phone in
\* the request, next to a first user whose record is as registered
C21_RenamedWithEmptyPhone ==
    /\ resp.op = "update_profile" /\ resp.status = HTTP_200_OK
    /\ resp.tok = Jwt(2)
    /\ resp.form = <<Some(Str("Zed", 3)), Some(Str("", 0))>>
    /\ Len(users) >= 2
    /\ users[2].name = Str("Zed", 3) /\ users[2].phone = None
    /\ users[2].role = "candidate"
    /\ users[1].name = Str("Ann", 3)

\* C22 (as stated): every stored job has a title and a company of 1 to 200
\* characters; an update that supplies an empty, null or over-long title or
\* company of a job of the caller is refused as invalid input (400 or 422)
\* and changes no job; an update changes only the fields it supplies and never the employer_id.
C22_JobFieldsValid ==
    [][/\ \A j \in DOMAIN jobs' :
            /\ jobs'[j].title.len >= 1 /\ jobs'[j].title.len <= 200
            /\ jobs'[j].company.len >= 1 /\ jobs'[j].company.len <= 200
       /\ (resp = NoResp /\ resp'.op = "update_job") =>
            LET u == resp'.rows[1]
                Bad(k) == k \in DOMAIN u /\
                             (u[k] = None \/ Val(u[k]).len < 1 \/ Val(u[k]).len > 200)
                owned == resp'.job \in DOMAIN jobs /\ resp'.tok.kind = "jwt"
                            /\ jobs[resp'.job].employer_id = resp'.tok.sub
            IN /\ (owned /\ (Bad("title") \/ Bad("company"))) =>
                     /\ resp'.status \in {HTTP_400_BAD_REQUEST, HTTP_422_UNPROCESSABLE}
                     /\ jobs' = jobs
               /\ DOMAIN jobs' = DOMAIN jobs
               /\ \A j \in DOMAIN jobs :
                     /\ jobs'[j].employer_id = jobs[j].employer_id
                     /\ \A k \in DOMAIN jobs[j] :
                           (j # resp'.job \/ k \notin DOMAIN u) => jobs'[j][k] = jobs[j][k]]_vars

\* C23 (as stated): for every rule set and candidate skill set for which
\* evaluate_resume reaches the check, the required-any check passes iff the
\* number of required_any skills among the candidate's skills is at least
\* max(1, any_min // 2).
C23_AnyCheckHalfMinimum ==
    (ev.phase = "done" /\ ev.resume.text /\ ~ev.result.raised) =>
        LET required_any == Val(Get(ev.rules, "required_any", Some({})))
            any_min == Get(ev.rules, "any_min", 0)
            matched == Cardinality(required_any \cap ev.resume.skills)
            needed == IF any_min \div 2 > 1 THEN any_min \div 2 ELSE 1
        IN ev.result.checks.any <=> matched >= needed

\* C23 (amended): with a non-empty required_any list the check passes iff the
\* matches are at least max(1, any_min // 2); with an empty list it passes.
C23_AnyCheckWhenConfigured ==
    (ev.phase = "done" /\ ev.resume.text /\ ~ev.result.raised) =>
        LET required_any == Val(Get(ev.rules, "required_any", Some({})))
            any_min == Get(ev.rules, "any_min", 0)
            matched == Cardinality(required_any \cap ev.resume.skills)
            needed == IF any_min \div 2 > 1 THEN any_min \div 2 ELSE 1
        IN IF required_any = {} THEN ev.result.checks.any
           ELSE ev.result.checks.any <=> matched >= needed

\* C23 witness: two of three preferred skills pass a configured minimum of 4
C23_HalfOfFourPasses ==
    /\ ev.phase = "done" /\ ev.resume.text /\ ~ev.result.raised
    /\ Get(ev.rules, "any_min", 0) = 4
    /\ Val(Get(ev.rules, "required_any", Some({}))) = {"python", "sql", "go"}
    /\ ev.resume.skills = {"python", "sql"}
    /\ ev.result.checks.any

\* C24: whenever evaluate_resume returns for a rule set with education
\* enabled, the education check is (minimum level met) and (minimum grade
\* met) and (degree requirement met or experience substitute applies); the
\* substitute applies exactly when it is enabled, the degree requirement
\* failed and the estimated years reach years_required; and the minimum
\* grade can only fail when a grade is required and the candidate has one.
C24_EducationCheck ==
    (/\ ev.phase = "done" /\ ev.resume.text /\ ~ev.result.raised
     /\ Get(Val(Get(ev.rules, "education_requirements", Some(EmptyDict))), "enabled", FALSE)) =>
        LET r == ev.resume
            e == Val(ev.rules["education_requirements"])
            mq == Val(Get(e, "minimum_qualification", Some(EmptyDict)))
            level == Get(mq, "level", "12th_diploma")
            candidate == Get(DEGREE_ORDER, r.level, 0)
            min_level_met ==
                candidate >= (IF level = "12th_diploma" THEN 2 ELSE Get(DEGREE_ORDER, level, 0))
            mg == Val(Get(mq, "grade", Some(EmptyDict)))
            grade_compared == Get(mg, "required", FALSE) /\ r.grade # None
            min_grade_met == grade_compared => Val(r.grade) >= Get(mg, "normalized", 0)
            dr == Val(Get(e, "degree_requirement", Some(EmptyDict)))
            dg == Get(dr, "grade", Some(EmptyDict))
            fields == Get(dr, "fields", {})
            degree_met ==
                Get(dr, "enabled", FALSE) =>
                    /\ candidate >= Get(DEGREE_ORDER, Get(dr, "level", "bachelor"), 0)
                    /\ r.field # None
                    /\ \E f \in fields :
                          normalize_field_name(Val(r.field)) = normalize_field_name(f)
                    /\ (dg # None /\ DOMAIN Val(dg) # {} /\ r.grade # None) =>
                          Val(r.grade) >= Get(Val(dg), "normalized", 0)
            sub == Val(Get(Val(Get(e, "alternative_paths", Some(EmptyDict))),
                           "experience_substitute", Some(EmptyDict)))
            substitute ==
                /\ Get(sub, "enabled", FALSE)
                /\ ~degree_met
                /\ r.years >= Get(sub, "years_required", 5)
        IN /\ ev.result.checks.education <=>
                 (min_level_met /\ min_grade_met /\ (degree_met \/ substitute))
           /\ ~grade_compared =>
                 (ev.result.checks.education <=> (min_level_met /\ (degree_met \/ substitute)))

\* C24 witness: a bachelor with five years passed a job that asks for a
\* master's degree and accepts five years instead
C24_ExperienceSubstituted ==
    /\ ev.phase = "done" /\ ev.resume.text /\ ~ev.result.raised
    /\ Get(Val(Get(ev.rules, "education_requirements", Some(EmptyDict))), "enabled", FALSE)
    /\ LET e == Val(ev.rules["education_requirements"])
           dr == Val(Get(e, "degree_requirement", Some(EmptyDict)))
           sub == Val(Get(Val(Get(e, "alternative_paths", Some(EmptyDict))),
                          "experience_substitute", Some(EmptyDict)))
       IN /\ Get(dr, "enabled", FALSE)
          /\ Get(dr, "level", "bachelor") = "master"
          /\ Get(sub, "enabled", FALSE)
          /\ Get(sub, "years_required", 5) = 5
    /\ ev.resume.level = "bachelor"
    /\ ev.resume.years = 5
    /\ ev.result.checks.education

\* C25 (as stated): an application to a job whose rules object leaves
\* education_requirements unset, made with a resume whose text can be read,
\* is screened without error: it is stored as selected or rejected, never
\* pending, and carries a score.
C25_DefaultRulesScreened ==
    \A a \in applications :
        LET job == jobs[a.job_id] IN
        (/\ job.rules # None
         /\ Get(Val(job.rules), "education_requirements", None) = None
         /\ files[a.resume_path].text) =>
            /\ a.status \in {"selected", "rejected"}
            /\ a.score # None
            /\ a.explanation.error = ""

\* C26 (as stated): a registration whose password passes the schema (6 to 50
\* characters) but encodes to more than 72 bytes is answered with HTTP 400,
\* and no user is created.
C26_LongPasswordIs400 ==
    [][(/\ resp = NoResp /\ resp'.op = "register"
        /\ CharLen(resp'.secret) >= 6 /\ CharLen(resp'.secret) <= 50
        /\ Utf8Len(resp'.secret) > BCRYPT_LIMIT) =>
            /\ resp'.status = HTTP_400_BAD_REQUEST
            /\ users' = users]_vars

C28_DirectBetweenTheTwo ==
    /\ [][(resp = NoResp /\ resp'.op = "get_direct_messages") =>
            LET U == resp'.form[1]
                C == IF resp'.tok.kind = "jwt" THEN resp'.tok.sub ELSE 0
            IN /\ resp'.status # HTTP_200_OK => resp'.data = <<>>
               /\ \A j \in DOMAIN resp'.data :
                     \E i \in DOMAIN messages :
                        /\ messages[i].id = resp'.data[j]
                        /\ ~messages[i].is_global
                        /\ messages[i].receiver_id # None
                        /\ \/ messages[i].sender_id = C /\ Val(messages[i].receiver_id) = U
                           \/ messages[i].sender_id = U /\ Val(messages[i].receiver_id) = C]_vars
    /\ [](\A A \in UserIds, B \in UserIds, limit \in {-1, 1, 2, 50} :
             direct_messages(A, B, limit) = direct_messages(B, A, limit))

\* C28 witness: the second user read the two messages exchanged with the
\* first one, while a message of the third user to the first is stored
C28_BothDirectionsRead ==
    /\ resp.op = "get_direct_messages" /\ resp.status = HTTP_200_OK
    /\ resp.tok = Jwt(2) /\ resp.form = <<1, 50>>
    /\ Len(resp.data) = 2
    /\ \E i \in DOMAIN messages, j \in DOMAIN messages, k \in DOMAIN messages :
          /\ messages[i].id = resp.data[1] /\ messages[i].sender_id = 1
          /\ messages[j].id = resp.data[2] /\ messages[j].sender_id = 2
          /\ messages[k].sender_id = 3 /\ ~messages[k].is_global

\* C29: no stored application has the status withdrawn; an application that
\* is stored before and after a step keeps its status and its score; and
\* the total that GET /jobs/{id}/stats reports is the number of stored
\* applications of the job and equals the sum of its selected, rejected
\* and pending counts.
C29_StatusFixedAndStatsAddUp ==
    /\ [](\A a \in applications : a.status \in {"selected", "rejected", "pending"})
    /\ [][/\ \A a \in applications : \A b \in applications' :
               a.id = b.id => (b.status = a.status /\ b.score = a.score)
          /\ (resp = NoResp /\ resp'.op = "get_job_stats" /\ resp'.status = HTTP_200_OK) =>
               /\ resp'.data[1] = Cardinality({a \in applications : a.job_id = resp'.job})
               /\ resp'.data[1] = resp'.data[2] + resp'.data[3] + resp'.data[4]]_vars

\* C29 witness: the owner read the statistics of a job with one rejected
\* and one pending application
C29_StatsOfRejectedAndPending ==
    /\ resp.op = "get_job_stats" /\ resp.status = HTTP_200_OK
    /\ resp.data = <<2, 0, 1, 1>>

\* C30: a bulk download by the owner of the job with between 1 and 50
\* application ids, each the id of a stored application of that job, is
\* not answered with 404, also when an id is listed more than once.
C30_OwnedIdsNeverNotFound ==
    [][(/\ resp = NoResp /\ resp'.op = "bulk_download_applications"
        /\ resp'.tok.kind = "jwt"
        /\ OwnedJob(resp'.job, resp'.tok.sub)
        /\ Len(resp'.form) \in 1 .. 50
        /\ \A i \in DOMAIN resp'.form :
              \E a \in applications : a.id = resp'.form[i] /\ a.job_id = resp'.job)
       => resp'.status # HTTP_404_NOT_FOUND]_vars

====
